---- MODULE Spec2Model ----
(***************************************************************************)
(* A model of django-side-effects: the registry of side-effect functions   *)
(* (src/side_effects/registry.py), its dispatch, the disable_side_effects  *)
(* scope, the has_side_effects wrapper (src/side_effects/decorators.py)    *)
(* and the atomic blocks of the caller.                                    *)
(*                                                                         *)
(* Every thread runs one operation at a time; an operation is a sequence   *)
(* of steps (pc) so that the points at which the interpreter can switch    *)
(* threads are visible.  Spec runs a single thread (the sequential         *)
(* program), SpecThreads runs all of Threads, SpecTx runs the sequential   *)
(* program with producers and atomic blocks.                               *)
(***************************************************************************)
EXTENDS Integers, Sequences, FiniteSets, TLC

\* ------------------------------------------------------------------ bounds

\* The registry holds at most MaxRegs entries (over all labels).
MaxRegs == 2

\* A scope records at most MaxEvents suppressed labels.
MaxEvents == 2

\* At most MaxTxRequests dispatches are requested inside one atomic block.
MaxTxRequests == 2

\* The most positional arguments of a call of try_bind or of _run_func on its
\* own.
MaxPositional == 2

\* The most consumers of one label in the registries the system check and
\* the display command are run on.
MaxListed == 3

\* ------------------------------------------------------------------ inputs

Threads == {"t1", "t2"}

MainThread == "t1"

\* Labels are strings; "a" is a substring of "ab".
Labels == {"a", "ab"}

\* disable_side_effects objects.
ScopeIds == {"s1", "s2"}

\* Consumer function objects (identities).  rec and rec_dup are two distinct
\* function objects that share one qualified name.
Funcs == {"rec", "rec_dup", "noargs", "boom"}

\* module.__name__ of each function object.
QualName(func) ==
    CASE func = "rec"     -> "m.rec"
      [] func = "rec_dup" -> "m.rec"
      [] func = "noargs"  -> "m.noargs"
      [] func = "boom"    -> "m.boom"
      [] OTHER            -> "tests." \o func

\* The declared parameters of each function object, as inspect.signature
\* reports them:
\*   rec(x)                    appends "foo" to x
\*   rec_dup(x, return_value)  appends "foo" to x
\*   noargs()
\*   boom(*args, **kwargs)     raises Exception
\* and the functions the tests of try_bind declare:
\*   foo1(return_value)   foo3(*args, return_value)   foo4(return_value, **kwargs)
\*   foo5(arg1, **kwargs)   star(*args)
\* a function with an annotated parameter, as the tests of the checks have:
\*   typed(x: Goo)
\* the function the test of is_side_effect_of decorates:
\*   test_func(arg1, arg2)   returns arg1 + arg2
\* and a consumer that registers another one:
\*   registrar(*args, **kwargs)   calls register_side_effect(label, rec)
\* pos: positional-or-keyword parameters in order; kwonly: keyword-only
\* parameters; defaults: the parameters that have a default.
Signature(func) ==
    CASE func = "rec"     -> [pos |-> <<"x">>, varargs |-> FALSE,
                              kwonly |-> {}, varkw |-> FALSE, defaults |-> {}]
      [] func = "rec_dup" -> [pos |-> <<"x", "return_value">>, varargs |-> FALSE,
                              kwonly |-> {}, varkw |-> FALSE, defaults |-> {}]
      [] func = "noargs"  -> [pos |-> <<>>, varargs |-> FALSE,
                              kwonly |-> {}, varkw |-> FALSE, defaults |-> {}]
      [] func = "boom"    -> [pos |-> <<>>, varargs |-> TRUE,
                              kwonly |-> {}, varkw |-> TRUE, defaults |-> {}]
      [] func = "foo1"    -> [pos |-> <<"return_value">>, varargs |-> FALSE,
                              kwonly |-> {}, varkw |-> FALSE, defaults |-> {}]
      [] func = "foo3"    -> [pos |-> <<>>, varargs |-> TRUE,
                              kwonly |-> {"return_value"}, varkw |-> FALSE, defaults |-> {}]
      [] func = "foo4"    -> [pos |-> <<"return_value">>, varargs |-> FALSE,
                              kwonly |-> {}, varkw |-> TRUE, defaults |-> {}]
      [] func = "foo5"    -> [pos |-> <<"arg1">>, varargs |-> FALSE,
                              kwonly |-> {}, varkw |-> TRUE, defaults |-> {}]
      [] func = "star"    -> [pos |-> <<>>, varargs |-> TRUE,
                              kwonly |-> {}, varkw |-> FALSE, defaults |-> {}]
      [] func = "typed"   -> [pos |-> <<"x">>, varargs |-> FALSE,
                              kwonly |-> {}, varkw |-> FALSE, defaults |-> {}]
      [] func = "test_func" -> [pos |-> <<"arg1", "arg2">>, varargs |-> FALSE,
                                kwonly |-> {}, varkw |-> FALSE, defaults |-> {}]
      [] func = "registrar" -> [pos |-> <<>>, varargs |-> TRUE,
                                kwonly |-> {}, varkw |-> TRUE, defaults |-> {}]

\* What the body of each function object does when it is invoked.
Body(func) ==
    CASE func = "rec"     -> "append"
      [] func = "rec_dup" -> "append"
      [] func = "noargs"  -> "pass"
      [] func = "boom"    -> "raise"
      [] func = "registrar" -> "register"
      [] OTHER            -> "pass"

\* The arguments of a dispatch: n positional arguments (the first one, when
\* there is one, is the caller's list object) and the keyword names kw.
CallArgs == {[n |-> 0, kw |-> {}], [n |-> 1, kw |-> {}], [n |-> 0, kw |-> {"x"}]}

NoArgs == [n |-> 0, kw |-> {}]

\* ------------------------------------------------------------------- state

VARIABLES
    registry,        \* _registry: label -> list of function objects (keys: the labels present)
    lock,            \* _registry._lock: "free" or the thread holding it
    suppress,        \* _registry._suppress
    TEST_MODE,       \* settings.TEST_MODE
    TEST_MODE_FAIL,  \* settings.TEST_MODE_FAIL
    ABORT_ON_ERROR,  \* settings.ABORT_ON_ERROR
    receivers,       \* Registry.suppressed_side_effect.receivers: list of (lookup key, receiver)
    scopes,          \* the disable_side_effects objects: state, events list, and (for the
                     \* properties) the labels of the dispatches that returned inside the scope
    pc,              \* per thread: where it is in its current operation
    op,              \* per thread: the current (or last) operation and its arguments
    idx,             \* per thread: position of the list iterator of the running for loop
    calls,           \* per thread: the consumer invocations made by the current (or last) dispatch
    sent,            \* per thread: the labels sent on suppressed_side_effect by the current (or last) dispatch
    raised,          \* per thread: the exception the current (or last) operation raised, or "none"
    shared_list,     \* per thread: number of "foo" appended to the caller's list object during the dispatch
    stack,           \* per thread: the scopes it has entered and not exited, innermost last
    logged,          \* per thread: the logger.exception records of the current (or last) operation
    observed,        \* per thread: what the current (or last) call of run_side_effects found:
                     \* the label's list when it was called, the functions try_bind_all bound
    frame,           \* per thread: the has_side_effects wrapper call under way (or the last one)
    tx,              \* per thread: its atomic block: "none", "active", "committed" or "rolled_back"
    hooks,           \* per thread: the callbacks handed to transaction.on_commit in the block
    ran_on_commit,   \* per thread: the callbacks the commit of the block ran, in order
    tx_requests,     \* per thread: the dispatches requested inside the block, in order
    tx_calls         \* per thread: the number of consumer invocations made while the block was active

globals == <<registry, lock, suppress, receivers, scopes>>

settings == <<TEST_MODE, TEST_MODE_FAIL, ABORT_ON_ERROR>>

locals == <<pc, op, idx, calls, sent, raised, shared_list, stack, logged, observed, frame>>

txvars == <<tx, hooks, ran_on_commit, tx_requests, tx_calls>>

vars == <<registry, lock, suppress, TEST_MODE, TEST_MODE_FAIL, ABORT_ON_ERROR,
          receivers, scopes, pc, op, idx, calls, sent, raised, shared_list, stack,
          logged, observed, frame, tx, hooks, ran_on_commit, tx_requests, tx_calls>>

\* ----------------------------------------------------------------- helpers

RECURSIVE SeqToSet(_)
SeqToSet(s) == IF s = <<>> THEN {} ELSE {Head(s)} \cup SeqToSet(Tail(s))

\* self[label] read only: the list of a label, empty when the key is absent.
Consumers(reg, label) == IF label \in DOMAIN reg THEN reg[label] ELSE <<>>

\* A lookup that puts a new empty list under the key each time.
GetItem_Fresh(reg, label) ==
    [k \in DOMAIN reg \cup {label} |-> IF k = label THEN <<>> ELSE reg[k]]

\* defaultdict.__getitem__: self[label] inserts an empty list for a missing key.
GetItem(reg, label) ==
    [k \in DOMAIN reg \cup {label} |-> IF k \in DOMAIN reg THEN reg[k] ELSE <<>>]

RECURSIVE SumLen(_, _)
SumLen(reg, keys) ==
    IF keys = {} THEN 0
    ELSE LET k == CHOOSE x \in keys : TRUE
         IN Len(reg[k]) + SumLen(reg, keys \ {k})

TotalEntries(reg) == SumLen(reg, DOMAIN reg)

\* No call of run_side_effects has found anything.
NoCall == [listed |-> <<>>, bound |-> <<>>]

NoOp == [kind |-> "none", label |-> "a", func |-> "rec", args |-> NoArgs]

\* The values a wrapped function returns: an HttpResponse with its
\* status_code, an int, or None.
NoneValue == [type |-> "NoneType", value |-> 0]

\* No has_side_effects wrapper is being called.  A frame holds the label and
\* predicate of the decorator, the wrapped function and the arguments of the
\* call, the value the function returned, the calls of run_side_effects made,
\* and how the wrapper ended: the value it returned or the exception it let
\* through.
NoFrame ==
    [state |-> "none", label |-> "a", run_on_exit |-> "http_response_check",
     func |-> "compute", args |-> NoArgs, return_value |-> NoneValue,
     requested |-> <<>>, returned |-> NoneValue, exc |-> "none"]

\* Thread t starts operation o, inside the wrapper call f when there is one:
\* what the previous operation left behind is dropped.
BeginIn(t, o, f) ==
    /\ op' = [op EXCEPT ![t] = o]
    /\ idx' = [idx EXCEPT ![t] = 1]
    /\ calls' = [calls EXCEPT ![t] = <<>>]
    /\ sent' = [sent EXCEPT ![t] = <<>>]
    /\ raised' = [raised EXCEPT ![t] = "none"]
    /\ shared_list' = [shared_list EXCEPT ![t] = 0]
    /\ logged' = [logged EXCEPT ![t] = 0]
    /\ observed' = [observed EXCEPT ![t] =
                       [listed |-> IF o.kind = "run" THEN Consumers(registry, o.label) ELSE <<>>,
                        bound |-> <<>>]]
    /\ frame' = [frame EXCEPT ![t] = f]

Begin(t, o) == BeginIn(t, o, NoFrame)

Init ==
    /\ registry = [k \in {} |-> <<>>]
    /\ lock = "free"
    /\ suppress = FALSE
    /\ TEST_MODE \in BOOLEAN
    /\ TEST_MODE_FAIL \in BOOLEAN
    /\ ABORT_ON_ERROR \in BOOLEAN
    /\ receivers = <<>>
    /\ scopes = [s \in ScopeIds |-> [state |-> "new", events |-> <<>>, dispatched |-> <<>>]]
    /\ pc = [t \in Threads |-> "idle"]
    /\ op = [t \in Threads |-> NoOp]
    /\ idx = [t \in Threads |-> 1]
    /\ calls = [t \in Threads |-> <<>>]
    /\ sent = [t \in Threads |-> <<>>]
    /\ raised = [t \in Threads |-> "none"]
    /\ shared_list = [t \in Threads |-> 0]
    /\ stack = [t \in Threads |-> <<>>]
    /\ logged = [t \in Threads |-> 0]
    /\ observed = [t \in Threads |-> NoCall]
    /\ frame = [t \in Threads |-> NoFrame]
    /\ tx = [t \in Threads |-> "none"]
    /\ hooks = [t \in Threads |-> <<>>]
    /\ ran_on_commit = [t \in Threads |-> <<>>]
    /\ tx_requests = [t \in Threads |-> <<>>]
    /\ tx_calls = [t \in Threads |-> 0]

\* The state of a process whose registry is one of `registries`, before any
\* operation of the model.
InitOn(registries) ==
    /\ registry \in registries
    /\ lock = "free"
    /\ suppress = FALSE
    /\ TEST_MODE \in BOOLEAN
    /\ TEST_MODE_FAIL \in BOOLEAN
    /\ ABORT_ON_ERROR \in BOOLEAN
    /\ receivers = <<>>
    /\ scopes = [s \in ScopeIds |-> [state |-> "new", events |-> <<>>, dispatched |-> <<>>]]
    /\ pc = [t \in Threads |-> "idle"]
    /\ op = [t \in Threads |-> NoOp]
    /\ idx = [t \in Threads |-> 1]
    /\ calls = [t \in Threads |-> <<>>]
    /\ sent = [t \in Threads |-> <<>>]
    /\ raised = [t \in Threads |-> "none"]
    /\ shared_list = [t \in Threads |-> 0]
    /\ stack = [t \in Threads |-> <<>>]
    /\ logged = [t \in Threads |-> 0]
    /\ observed = [t \in Threads |-> NoCall]
    /\ frame = [t \in Threads |-> NoFrame]
    /\ tx = [t \in Threads |-> "none"]
    /\ hooks = [t \in Threads |-> <<>>]
    /\ ran_on_commit = [t \in Threads |-> <<>>]
    /\ tx_requests = [t \in Threads |-> <<>>]
    /\ tx_calls = [t \in Threads |-> 0]

\* ------------------------------------------------------------- registration

\* A membership test that never finds the function.
InList_Never(func, lst) == FALSE

\* `func in _registry[label]`: list membership compares function objects,
\* which are equal only when they are the same object.
InList(func, lst) == func \in SeqToSet(lst)

\* Registry.contains: the lookup by qualified name.
contains(reg, label, func) ==
    QualName(func) \in {QualName(f) : f \in SeqToSet(Consumers(reg, label))}

\* The number of registrations under way that have passed the membership test.
Pending == Cardinality({t \in Threads : pc[t] \in {"add", "locked"}})

\* register_side_effect(label, func), up to the membership test: return when
\* func is in the label's list, go on to Registry.add otherwise.  Reading
\* _registry[label] inserts the key.
register_side_effect(t, label, func) ==
    /\ pc[t] = "idle"
    /\ \/ InList(func, Consumers(registry, label))
       \/ TotalEntries(registry) + Pending < MaxRegs
    /\ registry' = GetItem(registry, label)
    /\ Begin(t, [kind |-> "register", label |-> label, func |-> func, args |-> NoArgs])
    /\ pc' = [pc EXCEPT ![t] = IF InList(func, Consumers(registry, label))
                               THEN "idle" ELSE "add"]
    /\ UNCHANGED <<lock, suppress, settings, receivers, scopes, stack, txvars>>

\* Registry.add: `with self._lock:` acquires the lock.
add_acquire(t) ==
    /\ pc[t] = "add"
    /\ lock = "free"
    /\ lock' = t
    /\ pc' = [pc EXCEPT ![t] = "locked"]
    /\ UNCHANGED <<registry, suppress, settings, receivers, scopes,
                   op, idx, calls, sent, raised, shared_list, stack,
                   logged, observed, frame, txvars>>

\* A registration that puts the function at the head of the list.
AppendFunc_Front(lst, func) == <<func>> \o lst

\* The list after `lst.append(func)`.
AppendFunc(lst, func) == Append(lst, func)

\* A `with self._lock:` that keeps the lock when the block is left.
Release_Never(t) == t

\* The lock when thread t leaves the `with self._lock:` block.
Release(t) == "free"

\* Registry.add: `self[label].append(func)`, then the lock is released.
add_append(t) ==
    /\ pc[t] = "locked"
    /\ lock = t
    /\ registry' = [GetItem(registry, op[t].label) EXCEPT ![op[t].label] =
                        AppendFunc(Consumers(registry, op[t].label), op[t].func)]
    /\ lock' = Release(t)
    /\ pc' = [pc EXCEPT ![t] = "idle"]
    /\ UNCHANGED <<suppress, settings, receivers, scopes,
                   op, idx, calls, sent, raised, shared_list, stack,
                   logged, observed, frame, txvars>>

\* The function the consumer `registrar` registers, under the label that is
\* being dispatched.
RegistrarTarget == "rec"

\* Where thread t is after it has invoked func in the loop of
\* _run_side_effects: inside the consumer, at the `with self._lock:` of the
\* register_side_effect it calls, when the consumer registers a function that
\* is not in the list; back in the loop otherwise.
AfterConsumer(t, func) ==
    IF /\ Body(func) = "register"
       /\ ~InList(RegistrarTarget, Consumers(registry, op[t].label))
    THEN "nested_add"
    ELSE "run"

\* Registry.add called by a consumer that is being run by thread t:
\* `with self._lock:` acquires the lock.
nested_acquire(t) ==
    /\ pc[t] = "nested_add"
    /\ lock = "free"
    /\ lock' = t
    /\ pc' = [pc EXCEPT ![t] = "nested_locked"]
    /\ UNCHANGED <<registry, suppress, settings, receivers, scopes,
                   op, idx, calls, sent, raised, shared_list, stack,
                   logged, observed, frame, txvars>>

\* Registry.add called by a consumer: the append, the release of the lock,
\* and the return of the consumer to the loop of _run_side_effects.
nested_append(t) ==
    /\ pc[t] = "nested_locked"
    /\ lock = t
    /\ registry' = [GetItem(registry, op[t].label) EXCEPT ![op[t].label] =
                        AppendFunc(Consumers(registry, op[t].label), RegistrarTarget)]
    /\ lock' = Release(t)
    /\ pc' = [pc EXCEPT ![t] = "run"]
    /\ UNCHANGED <<suppress, settings, receivers, scopes,
                   op, idx, calls, sent, raised, shared_list, stack,
                   logged, observed, frame, txvars>>

\* ------------------------------------------------------------------ binding

Min(a, b) == IF a < b THEN a ELSE b

\* A bind that drops the positional arguments no parameter takes.
try_bind_AnySurplus(func, n, kws) ==
    LET sig    == Signature(func)
        np     == Len(sig.pos)
        filled == {sig.pos[i] : i \in 1..(IF n < np THEN n ELSE np)}
        rest   == {sig.pos[i] : i \in (n + 1)..np} \cup sig.kwonly
    IN /\ filled \cap kws = {}
       /\ (rest \ sig.defaults) \subseteq kws
       /\ (kws \ rest) # {} => sig.varkw

\* A bind that lets keywords through that name no parameter.
try_bind_AnyKeyword(func, n, kws) ==
    LET sig    == Signature(func)
        np     == Len(sig.pos)
        filled == {sig.pos[i] : i \in 1..(IF n < np THEN n ELSE np)}
        rest   == {sig.pos[i] : i \in (n + 1)..np} \cup sig.kwonly
    IN /\ n > np => sig.varargs
       /\ filled \cap kws = {}
       /\ (rest \ sig.defaults) \subseteq kws

\* try_bind(func, *args, **kwargs): inspect.signature(func).bind with n
\* positional arguments and the keyword names kws.  Positional arguments fill
\* the positional parameters in order; the surplus needs *args; a keyword that
\* names a parameter already filled is a TypeError; every parameter left
\* without a value needs a default; a keyword that names no parameter needs
\* **kwargs.
try_bind(func, n, kws) ==
    LET sig    == Signature(func)
        np     == Len(sig.pos)
        filled == {sig.pos[i] : i \in 1..Min(n, np)}
        rest   == {sig.pos[i] : i \in (n + 1)..np} \cup sig.kwonly
    IN /\ n > np => sig.varargs
       /\ filled \cap kws = {}
       /\ (rest \ sig.defaults) \subseteq kws
       /\ (kws \ rest) # {} => sig.varkw

WithReturnValue(kws) == kws \cup {"return_value"}

\* A try_bind_all that accepts every function.
BindsEither_Unchecked(func, args) == TRUE

\* The test of try_bind_all for one function: it binds with return_value or
\* without it.
BindsEither(func, args) ==
    \/ try_bind(func, args.n, WithReturnValue(args.kw))
    \/ try_bind(func, args.n, args.kw)

\* ----------------------------------------------------------------- dispatch

\* A dispatch that sends its notification twice.
Notify_Twice(log, label) == Append(Append(log, label), label)

\* The notifications a dispatch has sent, after one more for label.
Notify(log, label) == Append(log, label)

\* Signal.send: every connected receiver is called with the label;
\* disable_side_effects.on_event appends it to the events of its object.
Listening == {receivers[i].obj : i \in 1..Len(receivers)}

SendEvents(scs, label) ==
    [s \in ScopeIds |-> IF s \in Listening
                        THEN [scs[s] EXCEPT !.events = Append(@, label)]
                        ELSE scs[s]]

\* The label of a dispatch of thread t that returned, noted on every scope the
\* thread is inside of.
NoteDispatched(scs, t, label) ==
    [s \in ScopeIds |-> IF s \in SeqToSet(stack[t])
                        THEN [scs[s] EXCEPT !.dispatched = Append(@, label)]
                        ELSE scs[s]]

EventsRoom ==
    \A s \in ScopeIds :
        (s \in Listening \/ scopes[s].state = "open")
            => /\ Len(scopes[s].events) < MaxEvents
               /\ Len(scopes[s].dispatched) < MaxEvents

InBlock(t) == tx[t] = "active"

\* A run_side_effects that hands every dispatch to transaction.on_commit.
Deferred_Always(in_block) == TRUE

\* A run_side_effects that hands the dispatch to transaction.on_commit when
\* an atomic block is open.
Deferred_InBlock(in_block) == in_block

\* registry.run_side_effects: the call goes to Registry.run_side_effects at
\* once, inside an atomic block as outside of one; nothing is handed to
\* transaction.on_commit.
Deferred(in_block) == FALSE

\* The position a dispatch of thread t ends at: back in the wrapper that
\* called it, or idle.
Done(t) == IF frame[t].state = "dispatching" THEN "return" ELSE "idle"

\* registry.run_side_effects(label, *args, **kwargs) is called by `by`, inside
\* the wrapper call f when there is one: Registry.run_side_effects starts
\* try_bind_all, whose `self[label]` inserts the key.
Request(t, label, args, by, f) ==
    /\ EventsRoom
    /\ InBlock(t) => Len(tx_requests[t]) < MaxTxRequests
    /\ Len(hooks[t]) < MaxTxRequests
    /\ tx_requests' = [tx_requests EXCEPT ![t] =
                          IF InBlock(t)
                          THEN Append(@, [label |-> label, args |-> args, by |-> by])
                          ELSE @]
    /\ IF Deferred(InBlock(t))
       THEN /\ hooks' = [hooks EXCEPT ![t] = Append(@, label)]
            /\ pc' = [pc EXCEPT ![t] = IF f.state = "dispatching" THEN "return" ELSE "idle"]
            /\ UNCHANGED registry
       ELSE /\ registry' = GetItem(registry, label)
            /\ pc' = [pc EXCEPT ![t] = "bind"]
            /\ UNCHANGED hooks
    /\ BeginIn(t, [kind |-> "run", label |-> label, func |-> "rec", args |-> args], f)
    /\ UNCHANGED <<lock, suppress, settings, receivers, scopes, stack,
                   tx, ran_on_commit, tx_calls>>

\* run_side_effects(label, *args, **kwargs) called by the program.
run_side_effects(t, label, args) ==
    /\ pc[t] = "idle"
    /\ Request(t, label, args, "run_side_effects", NoFrame)

\* A try_bind_all that looks at the consumer registered first and at no other.
CheckedList_FirstOnly(t) ==
    SubSeq(Consumers(registry, op[t].label), 1, Min(1, Len(Consumers(registry, op[t].label))))

\* `for func in self[label]`: the list try_bind_all goes through is the
\* label's list in the registry, as it is when the loop reads it.
CheckedList(t) == Consumers(registry, op[t].label)

\* One iteration of the loop of try_bind_all over the label's list.
try_bind_all(t) ==
    /\ pc[t] = "bind"
    /\ LET lst == CheckedList(t)
       IN IF idx[t] > Len(lst)
          THEN /\ pc' = [pc EXCEPT ![t] = IF op[t].kind = "try_bind_all"
                                          THEN "idle" ELSE "decide"]
               /\ UNCHANGED <<idx, raised, observed>>
          ELSE IF BindsEither(lst[idx[t]], op[t].args)
          THEN /\ idx' = [idx EXCEPT ![t] = @ + 1]
               /\ observed' = [observed EXCEPT ![t].bound = Append(@, lst[idx[t]])]
               /\ UNCHANGED <<pc, raised>>
          ELSE /\ raised' = [raised EXCEPT ![t] = "SignatureMismatch"]
               /\ pc' = [pc EXCEPT ![t] = Done(t)]
               /\ UNCHANGED <<idx, observed>>
    /\ UNCHANGED <<globals, settings, op, calls, sent, shared_list, stack,
                   logged, frame, txvars>>

\* A test of the suppress flag alone.
Suppressed_FlagOnly == suppress

\* `if self._suppress or settings.TEST_MODE`.
Suppressed == suppress \/ TEST_MODE

\* A _run_side_effects without the TEST_MODE_FAIL test.
FailsTest_Ignored == FALSE

\* `if settings.TEST_MODE_FAIL: raise SideEffectsTestFailure(label)`.
FailsTest == TEST_MODE_FAIL

\* Registry.run_side_effects after try_bind_all: send the signal when
\* suppressed, else enter _run_side_effects, which raises under TEST_MODE_FAIL
\* and otherwise starts its loop.
decide(t) ==
    /\ pc[t] = "decide"
    /\ IF Suppressed
       THEN /\ sent' = [sent EXCEPT ![t] = Notify(@, op[t].label)]
            /\ scopes' = NoteDispatched(SendEvents(scopes, op[t].label), t, op[t].label)
            /\ pc' = [pc EXCEPT ![t] = Done(t)]
            /\ UNCHANGED <<idx, raised>>
       ELSE IF FailsTest
       THEN /\ raised' = [raised EXCEPT ![t] = "SideEffectsTestFailure"]
            /\ pc' = [pc EXCEPT ![t] = Done(t)]
            /\ UNCHANGED <<idx, sent, scopes>>
       ELSE /\ pc' = [pc EXCEPT ![t] = "run"]
            /\ idx' = [idx EXCEPT ![t] = 1]
            /\ UNCHANGED <<raised, sent, scopes>>
    /\ UNCHANGED <<registry, lock, suppress, receivers, settings,
                   op, calls, shared_list, stack, logged, observed, frame, txvars>>

\* A _run_func that tries the call without return_value first.
Invocation_WithoutFirst(func, args) ==
    IF try_bind(func, args.n, args.kw)
    THEN [func |-> func, n |-> args.n, kw |-> args.kw, rv |-> "omitted"]
    ELSE IF try_bind(func, args.n, WithReturnValue(args.kw))
    THEN [func |-> func, n |-> args.n, kw |-> args.kw, rv |-> "passed"]
    ELSE [func |-> func, n |-> args.n, kw |-> args.kw, rv |-> "mismatch"]

\* The invocation _run_func makes of func: with return_value when that binds,
\* without it when that binds, none ("mismatch") otherwise.
Invocation(func, args) ==
    IF try_bind(func, args.n, WithReturnValue(args.kw))
    THEN [func |-> func, n |-> args.n, kw |-> args.kw, rv |-> "passed"]
    ELSE IF try_bind(func, args.n, args.kw)
    THEN [func |-> func, n |-> args.n, kw |-> args.kw, rv |-> "omitted"]
    ELSE [func |-> func, n |-> args.n, kw |-> args.kw, rv |-> "mismatch"]

\* A loop that passes over every other function of the list.
NextIndex_Skip(i) == i + 2

\* `for func in self[label]`: the list iterator moves to the next position of
\* the list.
NextIndex(i) == i + 1

\* A _run_func that re-raises whatever the settings are.
Reraise_Always == TRUE

\* A _run_func that only logs.
Reraise_Never == FALSE

\* `if settings.ABORT_ON_ERROR or settings.TEST_MODE_FAIL: raise`.
Reraise == ABORT_ON_ERROR \/ TEST_MODE_FAIL

\* `except Exception: logger.exception(...)`: one record for an exception that
\* is not SignatureMismatch, written before the settings are looked at.
LogException(n, func) == IF Body(func) = "raise" THEN n + 1 ELSE n

\* A consumer that is handed a copy of the caller's list.
ListAfter_Copy(n, func) == n

\* What the caller's list object holds after func ran on it.
ListAfter(n, func) == IF Body(func) = "append" THEN n + 1 ELSE n

\* A loop that goes on, after the list of the label, with the list of the
\* label that contains it.
LoopList_Containing(t) ==
    IF op[t].label = "a"
    THEN Consumers(registry, "a") \o Consumers(registry, "ab")
    ELSE Consumers(registry, op[t].label)

\* `for func in self[label]` of _run_side_effects: the list under the key
\* that equals label, as it is when the loop reads it.
LoopList(t) == Consumers(registry, op[t].label)

\* One iteration of the loop of _run_side_effects: _run_func on the next
\* function of the label's list, or the end of the loop.
_run_func(t) ==
    /\ pc[t] = "run"
    /\ LET lst == LoopList(t)
       IN IF idx[t] > Len(lst)
          THEN /\ pc' = [pc EXCEPT ![t] = Done(t)]
               /\ scopes' = NoteDispatched(scopes, t, op[t].label)
               /\ UNCHANGED <<registry, lock, suppress, receivers>>
               /\ UNCHANGED <<idx, raised, calls, shared_list, logged, tx_calls>>
          ELSE LET func == lst[idx[t]]
                   inv  == Invocation(func, op[t].args)
               IN IF inv.rv = "mismatch"
                  THEN /\ raised' = [raised EXCEPT ![t] = "SignatureMismatch"]
                       /\ pc' = [pc EXCEPT ![t] = Done(t)]
                       /\ UNCHANGED <<idx, calls, shared_list, logged, tx_calls, globals>>
                  ELSE /\ calls' = [calls EXCEPT ![t] = Append(@, inv)]
                       /\ tx_calls' = [tx_calls EXCEPT ![t] = IF InBlock(t) THEN @ + 1 ELSE @]
                       /\ shared_list' = [shared_list EXCEPT ![t] = ListAfter(@, func)]
                       /\ logged' = [logged EXCEPT ![t] = LogException(@, func)]
                       /\ IF Body(func) = "raise" /\ Reraise
                          THEN /\ raised' = [raised EXCEPT ![t] = "Exception"]
                               /\ pc' = [pc EXCEPT ![t] = Done(t)]
                               /\ UNCHANGED idx
                          ELSE /\ idx' = [idx EXCEPT ![t] = NextIndex(@)]
                               /\ pc' = [pc EXCEPT ![t] = AfterConsumer(t, func)]
                               /\ UNCHANGED raised
                       /\ UNCHANGED globals
    /\ UNCHANGED <<settings, op, sent, stack, observed, frame, tx, hooks, ran_on_commit, tx_requests>>

\* _run_func(func, *args, **kwargs) called on its own, as the tests of the
\* module call it.
run_one_func(t, func, args) ==
    /\ pc[t] = "idle"
    /\ op' = [op EXCEPT ![t] = [kind |-> "_run_func", label |-> "a", func |-> func, args |-> args]]
    /\ idx' = [idx EXCEPT ![t] = 1]
    /\ sent' = [sent EXCEPT ![t] = <<>>]
    /\ observed' = [observed EXCEPT ![t] = NoCall]
    /\ frame' = [frame EXCEPT ![t] = NoFrame]
    /\ LET inv == Invocation(func, args)
       IN IF inv.rv = "mismatch"
          THEN /\ raised' = [raised EXCEPT ![t] = "SignatureMismatch"]
               /\ calls' = [calls EXCEPT ![t] = <<>>]
               /\ shared_list' = [shared_list EXCEPT ![t] = 0]
               /\ logged' = [logged EXCEPT ![t] = 0]
               /\ UNCHANGED tx_calls
          ELSE /\ calls' = [calls EXCEPT ![t] = <<inv>>]
               /\ tx_calls' = [tx_calls EXCEPT ![t] = IF InBlock(t) THEN @ + 1 ELSE @]
               /\ shared_list' = [shared_list EXCEPT ![t] = ListAfter(0, func)]
               /\ logged' = [logged EXCEPT ![t] = LogException(0, func)]
               /\ raised' = [raised EXCEPT ![t] = IF Body(func) = "raise" /\ Reraise
                                                  THEN "Exception" ELSE "none"]
    /\ UNCHANGED <<globals, settings, pc, stack, tx, hooks, ran_on_commit, tx_requests>>

\* The bool a call returned.
BoolValue(b) == [type |-> "bool", value |-> IF b THEN 1 ELSE 0]

\* try_bind(func, *args, **kwargs) called on its own, as the tests of the
\* module call it: the signature is bound, the function is not called, and
\* the TypeError of a failed bind becomes the return value False.
try_bind_call(t, func, args) ==
    /\ pc[t] = "idle"
    /\ BeginIn(t, [kind |-> "try_bind", label |-> "a", func |-> func, args |-> args],
               [NoFrame EXCEPT !.returned = BoolValue(try_bind(func, args.n, args.kw))])
    /\ UNCHANGED <<globals, settings, pc, stack, txvars>>

\* Registry.try_bind_all(label, *args, **kwargs) called on its own: the loop
\* over `self[label]`, which inserts the key.
try_bind_all_call(t, label, args) ==
    /\ pc[t] = "idle"
    /\ registry' = GetItem(registry, label)
    /\ Begin(t, [kind |-> "try_bind_all", label |-> label, func |-> "rec", args |-> args])
    /\ pc' = [pc EXCEPT ![t] = "bind"]
    /\ UNCHANGED <<lock, suppress, settings, receivers, scopes, stack, txvars>>

\* Registry.contains(label, func): the names of the functions of
\* `self[label]`, which inserts the key, are compared with the name of func.
contains_call(t, label, func) ==
    /\ pc[t] = "idle"
    /\ registry' = GetItem(registry, label)
    /\ BeginIn(t, [kind |-> "contains", label |-> label, func |-> func, args |-> NoArgs],
               [NoFrame EXCEPT !.returned = BoolValue(contains(registry, label, func))])
    /\ UNCHANGED <<lock, suppress, settings, receivers, scopes, pc, stack, txvars>>

\* The dict a filter of the registry returned: the items of reg under keys.
DictValue(reg, keys) == [type |-> "dict", value |-> [k \in keys |-> reg[k]]]

\* The characters of the strings of the model.
Chars(str) ==
    CASE str = ""   -> <<>>
      [] str = "a"  -> <<"a">>
      [] str = "b"  -> <<"b">>
      [] str = "ab" -> <<"a", "b">>
      [] str = "ba" -> <<"b", "a">>

\* A filter that keeps the keys that start with value.
IsSubstring_Prefix(value, k) ==
    /\ Len(Chars(value)) <= Len(Chars(k))
    /\ SubSeq(Chars(k), 1, Len(Chars(value))) = Chars(value)

\* `value in k` on strings: value occurs in k at some position.
IsSubstring(value, k) ==
    \E i \in 1..(Len(Chars(k)) + 1) :
        /\ i + Len(Chars(value)) - 1 <= Len(Chars(k))
        /\ SubSeq(Chars(k), i, i + Len(Chars(value)) - 1) = Chars(value)

\* Registry.by_label(value): a new dict of the items whose key equals value,
\* read through self.items().
by_label(t, value) ==
    /\ pc[t] = "idle"
    /\ BeginIn(t, [kind |-> "by_label", label |-> value, func |-> "rec", args |-> NoArgs],
               [NoFrame EXCEPT !.returned =
                   DictValue(registry, {k \in DOMAIN registry : k = value})])
    /\ UNCHANGED <<globals, settings, pc, stack, txvars>>

\* Registry.by_label_contains(value): a new dict of the items whose key
\* contains value, read through self.items().
by_label_contains(t, value) ==
    /\ pc[t] = "idle"
    /\ BeginIn(t, [kind |-> "by_label_contains", label |-> value, func |-> "rec", args |-> NoArgs],
               [NoFrame EXCEPT !.returned =
                   DictValue(registry, {k \in DOMAIN registry : IsSubstring(value, k)})])
    /\ UNCHANGED <<globals, settings, pc, stack, txvars>>

\* --------------------------------------------------------- has_side_effects

\* The functions a has_side_effects decorator wraps: two views, a function
\* that returns an int, one that returns None and one that raises.
Producers == {"view_ok", "view_bad", "compute", "nothing", "fail"}

ProducerRaises(func) == func = "fail"

ProducerResult(func) ==
    CASE func = "view_ok"  -> [type |-> "HttpResponse", value |-> 200]
      [] func = "view_bad" -> [type |-> "HttpResponse", value |-> 404]
      [] func = "compute"  -> [type |-> "int", value |-> 2]
      [] func = "nothing"  -> NoneValue
      [] func = "fail"     -> NoneValue

\* The classes of the values of the model that are HttpResponse or derive
\* from it: `isinstance(response, HttpResponse)`.
IsHttpResponse(response) == response.type \in {"HttpResponse", "JsonResponse"}

\* A check that takes 600 for an error status as well.
http_response_check_Upto600(response) ==
    IF IsHttpResponse(response)
    THEN ~(400 <= response.value /\ response.value <= 600)
    ELSE TRUE

\* http_response_check: true for anything but a response with a 4xx or 5xx
\* status_code.
http_response_check(response) ==
    IF IsHttpResponse(response)
    THEN ~(400 <= response.value /\ response.value < 600)
    ELSE TRUE

\* http_response_check(response) called on its own, as its test calls it.
http_response_check_call(t, response) ==
    /\ pc[t] = "idle"
    /\ BeginIn(t, [kind |-> "http_response_check", label |-> "a", func |-> "rec",
                   args |-> NoArgs],
               [NoFrame EXCEPT !.return_value = response,
                               !.returned = BoolValue(http_response_check(response))])
    /\ UNCHANGED <<globals, settings, pc, stack, txvars>>

\* The run_on_exit predicates: the default, and `lambda r: False`.
Predicates == {"http_response_check", "never"}

\* A wrapper that does not look at the predicate.
RunOnExit_Ignored(p, result) == TRUE

\* run_on_exit(return_value).
RunOnExit(p, result) ==
    IF p = "http_response_check" THEN http_response_check(result) ELSE FALSE

\* A wrapper that asks the predicate in a `finally:` clause.
DispatchReached_Finally(func_raised, on_exit) == on_exit

\* Whether inner_func gets to its call of registry.run_side_effects: an
\* exception of func leaves inner_func at once, else run_on_exit decides.
DispatchReached(func_raised, on_exit) == ~func_raised /\ on_exit

\* `registry.run_side_effects(label, *args, return_value=return_value, **kwargs)`.
DispatchCall(label, args, result) ==
    [label |-> label, args |-> args, return_value |-> result]

\* A wrapper that returns None.
WrapperReturn_None(result) == NoneValue

\* `return return_value`.
WrapperReturn(result) == result

\* inner_func(*args, **kwargs) of has_side_effects(label, run_on_exit)(func),
\* up to the call of registry.run_side_effects: func is called and its
\* exception, if it raises, goes to the caller; else run_on_exit is asked, and
\* the wrapper returns the result when it says no.
inner_func(t, label, run_on_exit, func, args) ==
    /\ pc[t] = "idle"
    /\ LET func_raised == ProducerRaises(func)
           result == ProducerResult(func)
           call == DispatchCall(label, args, result)
           f == [NoFrame EXCEPT !.label = label, !.run_on_exit = run_on_exit,
                                !.func = func, !.args = args,
                                !.return_value = IF func_raised THEN NoneValue ELSE result,
                                !.exc = IF func_raised THEN "Exception" ELSE "none"]
           o == [kind |-> "wrapper", label |-> label, func |-> "rec", args |-> args]
       IN IF DispatchReached(func_raised, RunOnExit(run_on_exit, result))
          THEN Request(t, call.label, call.args, "has_side_effects",
                       [f EXCEPT !.state = "dispatching", !.requested = <<call>>])
          ELSE /\ BeginIn(t, o, IF func_raised
                                THEN [f EXCEPT !.state = "raised"]
                                ELSE [f EXCEPT !.state = "returned",
                                               !.returned = WrapperReturn(result)])
               /\ UNCHANGED <<globals, settings, pc, stack, txvars>>

\* inner_func after registry.run_side_effects: its exception, if it raised,
\* goes to the caller; else the wrapper returns the result of func.
inner_return(t) ==
    /\ pc[t] = "return"
    /\ pc' = [pc EXCEPT ![t] = "idle"]
    /\ LET f == frame[t]
       IN frame' = [frame EXCEPT ![t] =
                       IF raised[t] # "none"
                       THEN [f EXCEPT !.state = "raised", !.exc = raised[t]]
                       ELSE IF f.exc # "none"
                       THEN [f EXCEPT !.state = "raised"]
                       ELSE [f EXCEPT !.state = "returned",
                                      !.returned = WrapperReturn(f.return_value)]]
    /\ UNCHANGED <<globals, settings, op, idx, calls, sent, raised, shared_list,
                   stack, logged, observed, txvars>>

\* ---------------------------------------------------------- is_side_effect_of

\* What a call of each function object returns when it does not raise:
\* test_func(1, 2) returns 3, the others return None.
FuncResult(func) ==
    IF func = "test_func" THEN [type |-> "int", value |-> 3] ELSE NoneValue

\* How a call func(*args, **kwargs) made by Python ends: TypeError when the
\* arguments do not bind, the exception of the body when it raises one.
FuncRaises(func, args) ==
    IF ~try_bind(func, args.n, args.kw) THEN "TypeError"
    ELSE IF Body(func) = "raise" THEN "Exception"
    ELSE "none"

\* is_side_effect_of(label)(func): the decorator calls
\* registry.register_side_effect(label, func), up to the membership test, as
\* register_side_effect does; func is not called.
is_side_effect_of(t, label, func) ==
    /\ pc[t] = "idle"
    /\ \/ InList(func, Consumers(registry, label))
       \/ TotalEntries(registry) + Pending < MaxRegs
    /\ registry' = GetItem(registry, label)
    /\ Begin(t, [kind |-> "is_side_effect_of", label |-> label, func |-> func, args |-> NoArgs])
    /\ pc' = [pc EXCEPT ![t] = IF InList(func, Consumers(registry, label))
                               THEN "idle" ELSE "add"]
    /\ UNCHANGED <<lock, suppress, settings, receivers, scopes, stack, txvars>>

\* An inner_func that drops the value of func.
DecoratedReturn_None(value) == NoneValue

\* `return func(*args, **kwargs)` of the inner_func of is_side_effect_of.
DecoratedReturn(value) == value

\* A call of the function is_side_effect_of returned: func is called with the
\* arguments of the call, its value is returned and its exception is let
\* through.
decorated_call(t, func, args) ==
    /\ pc[t] = "idle"
    /\ op' = [op EXCEPT ![t] = [kind |-> "decorated_call", label |-> "a",
                                func |-> func, args |-> args]]
    /\ idx' = [idx EXCEPT ![t] = 1]
    /\ sent' = [sent EXCEPT ![t] = <<>>]
    /\ observed' = [observed EXCEPT ![t] = NoCall]
    /\ raised' = [raised EXCEPT ![t] = FuncRaises(func, args)]
    /\ logged' = [logged EXCEPT ![t] = 0]
    /\ IF FuncRaises(func, args) = "TypeError"
       THEN /\ calls' = [calls EXCEPT ![t] = <<>>]
            /\ shared_list' = [shared_list EXCEPT ![t] = 0]
       ELSE /\ calls' = [calls EXCEPT ![t] =
                            <<[func |-> func, n |-> args.n, kw |-> args.kw, rv |-> "omitted"]>>]
            /\ shared_list' = [shared_list EXCEPT ![t] = ListAfter(0, func)]
    /\ frame' = [frame EXCEPT ![t] =
                    IF FuncRaises(func, args) # "none"
                    THEN [NoFrame EXCEPT !.state = "raised", !.func = func, !.args = args,
                                         !.exc = FuncRaises(func, args)]
                    ELSE [NoFrame EXCEPT !.state = "returned", !.func = func, !.args = args,
                                         !.return_value = FuncResult(func),
                                         !.returned = DecoratedReturn(FuncResult(func))]]
    /\ UNCHANGED <<globals, settings, pc, stack, txvars>>

\* ------------------------------------------------------------------- checks

\* inspect.get_annotations(func): the annotation of each annotated parameter.
Annotations(func) == IF func = "typed" THEN [x |-> "Goo"] ELSE [p \in {} |-> "Goo"]

\* A trim_signature that keeps return_value.
trim_signature_Keep(func) ==
    [pos |-> Signature(func).pos, varargs |-> Signature(func).varargs,
     kwonly |-> Signature(func).kwonly, varkw |-> Signature(func).varkw,
     defaults |-> Signature(func).defaults, annotations |-> Annotations(func)]

\* trim_signature(func): the signature of func, annotations included, without
\* the parameter return_value.
trim_signature(func) ==
    LET sig == Signature(func)
    IN [pos |-> SelectSeq(sig.pos, LAMBDA p : p # "return_value"),
        varargs |-> sig.varargs,
        kwonly |-> sig.kwonly \ {"return_value"},
        varkw |-> sig.varkw,
        defaults |-> sig.defaults \ {"return_value"},
        annotations |-> [p \in DOMAIN Annotations(func) \ {"return_value"} |->
                            Annotations(func)[p]]]

\* has_class_annotations(functions): some annotation of some function is
\* neither `str` nor None.
has_class_annotations(functions) ==
    \E i \in 1..Len(functions) :
        \E p \in DOMAIN Annotations(functions[i]) :
            Annotations(functions[i])[p] \notin {"str", "None"}

\* find_fixes(label): no message when the trimmed signatures of the label's
\* functions are all equal, else the message W002 when has_class_annotations
\* and W001 otherwise; the result as a list of zero or one message.
find_fixes(reg, label) ==
    LET functions  == reg[label]
        signatures == {trim_signature(functions[i]) : i \in 1..Len(functions)}
    IN IF Cardinality(signatures) > 1
       THEN IF has_class_annotations(functions)
            THEN <<[id |-> "side_effects.W002", level |-> "Warning", label |-> label]>>
            ELSE <<[id |-> "side_effects.W001", level |-> "Warning", label |-> label]>>
       ELSE <<>>

\* The loop of check_function_signatures over the labels of the registry.
RECURSIVE CollectErrors(_, _)
CollectErrors(reg, labels) ==
    IF labels = {} THEN <<>>
    ELSE LET label == CHOOSE l \in labels : TRUE
         IN find_fixes(reg, label) \o CollectErrors(reg, labels \ {label})

\* check_function_signatures(app_configs): the list of the messages of
\* find_fixes for the labels of the registry.
check_function_signatures(t) ==
    /\ pc[t] = "idle"
    /\ BeginIn(t, [kind |-> "check_function_signatures", label |-> "a", func |-> "rec",
                   args |-> NoArgs],
               [NoFrame EXCEPT !.returned =
                   [type |-> "list", value |-> CollectErrors(registry, DOMAIN registry)]])
    /\ UNCHANGED <<globals, settings, pc, stack, txvars>>

\* ------------------------------------------------------ display_side_effects

\* docstring(func) is not None: the function objects that have a __doc__.
HasDocstring(func) == func \in {"rec", "rec_dup"}

\* The options of the command that are not set.
NoFilter == ""

\* Command.handle, the choice of the events: by_label when --label is given,
\* by_label_contains when --label-contains is given, else the registry.
SelectedEvents(reg, options) ==
    IF options.label # NoFilter
    THEN {k \in DOMAIN reg : k = options.label}
    ELSE IF options.label_contains # NoFilter
    THEN {k \in DOMAIN reg : IsSubstring(options.label_contains, k)}
    ELSE DOMAIN reg

\* The functions of a list for which print_default or print_verbose appends
\* to self.missing_docstrings.
RECURSIVE MissingOf(_)
MissingOf(funcs) ==
    IF funcs = <<>> THEN <<>>
    ELSE (IF HasDocstring(Head(funcs)) THEN <<>> ELSE <<QualName(Head(funcs))>>)
             \o MissingOf(Tail(funcs))

\* self.missing_docstrings after print_default or print_verbose has gone
\* through the events.
RECURSIVE MissingIn(_, _)
MissingIn(reg, labels) ==
    IF labels = {} THEN <<>>
    ELSE LET label == CHOOSE l \in labels : TRUE
         IN MissingOf(reg[label]) \o MissingIn(reg, labels \ {label})

\* self.missing_docstrings after the printing: print_raw leaves it empty.
missing_docstrings(reg, options) ==
    IF options.raw THEN <<>> ELSE MissingIn(reg, SelectedEvents(reg, options))

\* The command display_side_effects: the events are chosen and printed, and
\* with --strict the process exits with len(self.missing_docstrings);
\* without it handle returns.
display_side_effects(t, options) ==
    /\ pc[t] = "idle"
    /\ BeginIn(t, [kind |-> "display_side_effects", label |-> "a", func |-> "rec",
                   args |-> options],
               [NoFrame EXCEPT !.returned =
                   IF options.strict
                   THEN [type |-> "SystemExit",
                         value |-> Len(missing_docstrings(registry, options))]
                   ELSE NoneValue])
    /\ UNCHANGED <<globals, settings, pc, stack, txvars>>

\* ------------------------------------------------------------ atomic blocks

\* `with transaction.atomic():` is entered by a thread that has no block open.
atomic_enter(t) ==
    /\ pc[t] = "idle"
    /\ ~InBlock(t)
    /\ tx' = [tx EXCEPT ![t] = "active"]
    /\ hooks' = [hooks EXCEPT ![t] = <<>>]
    /\ ran_on_commit' = [ran_on_commit EXCEPT ![t] = <<>>]
    /\ tx_requests' = [tx_requests EXCEPT ![t] = <<>>]
    /\ tx_calls' = [tx_calls EXCEPT ![t] = 0]
    /\ Begin(t, [NoOp EXCEPT !.kind = "atomic_enter"])
    /\ UNCHANGED <<globals, settings, pc, stack>>

\* The block ends: normally, and the transaction commits and runs the
\* callbacks handed to on_commit in order; or by an exception, and the
\* transaction rolls back and drops them.
atomic_exit(t, commit) ==
    /\ pc[t] = "idle"
    /\ InBlock(t)
    /\ tx' = [tx EXCEPT ![t] = IF commit THEN "committed" ELSE "rolled_back"]
    /\ ran_on_commit' = [ran_on_commit EXCEPT ![t] = IF commit THEN hooks[t] ELSE <<>>]
    /\ hooks' = [hooks EXCEPT ![t] = <<>>]
    /\ Begin(t, [NoOp EXCEPT !.kind = "atomic_exit"])
    /\ UNCHANGED <<globals, settings, pc, stack, tx_requests, tx_calls>>

\* --------------------------------------------------- disable_side_effects

\* The lookup key Signal.connect and Signal.disconnect compute: the
\* dispatch_uid when one is given, the identity of the receiver otherwise.
LookupKey(dispatch_uid, receiver) ==
    IF dispatch_uid # "None"
    THEN [kind |-> "dispatch_uid", val |-> dispatch_uid]
    ELSE [kind |-> "receiver", val |-> receiver]

HasKey(rcv, key) == \E i \in 1..Len(rcv) : rcv[i].key = key

\* Signal.connect(receiver, dispatch_uid=...): appended unless a receiver with
\* the same lookup key is connected.
Connect(rcv, receiver, dispatch_uid) ==
    LET key == LookupKey(dispatch_uid, receiver)
    IN IF HasKey(rcv, key) THEN rcv
       ELSE Append(rcv, [key |-> key, obj |-> receiver])

\* Signal.disconnect(receiver): the receiver whose lookup key matches is removed.
Disconnect(rcv, receiver, dispatch_uid) ==
    LET key == LookupKey(dispatch_uid, receiver)
    IN SelectSeq(rcv, LAMBDA r : r.key # key)

\* A receiver is held by a weak reference: it is gone once its object is.
DropDead(rcv, s) == SelectSeq(rcv, LAMBDA r : r.obj # s)

\* The scope objects are used in the order of ScopeIds.
NextScope(s) ==
    /\ scopes[s].state = "new"
    /\ \A o \in ScopeIds : scopes[o].state = "new" => (s = "s1" \/ o # "s1")

\* disable_side_effects.__enter__ on a new object.
enter(t, s) ==
    /\ pc[t] = "idle"
    /\ NextScope(s)
    /\ receivers' = Connect(receivers, s, "suppress")
    /\ suppress' = TRUE
    /\ scopes' = [scopes EXCEPT ![s].state = "open"]
    /\ stack' = [stack EXCEPT ![t] = Append(@, s)]
    /\ Begin(t, [NoOp EXCEPT !.kind = "enter"])
    /\ UNCHANGED <<registry, lock, settings, pc, txvars>>

\* The value __exit__ leaves in _registry._suppress.
SuppressAfterExit == FALSE

\* disable_side_effects.__exit__ of the innermost scope of thread t, reached
\* when the block ends and when it raises.
exit(t) ==
    /\ pc[t] = "idle"
    /\ stack[t] # <<>>
    /\ LET s == stack[t][Len(stack[t])]
       IN /\ suppress' = SuppressAfterExit
          /\ receivers' = Disconnect(receivers, s, "None")
          /\ scopes' = [scopes EXCEPT ![s].state = "exited"]
          /\ stack' = [stack EXCEPT ![t] = SubSeq(@, 1, Len(@) - 1)]
    /\ Begin(t, [NoOp EXCEPT !.kind = "exit"])
    /\ UNCHANGED <<registry, lock, settings, pc, txvars>>

\* An exited scope object is garbage-collected once nothing refers to it; when
\* that happens is up to the interpreter and to who kept a reference.
collect(s) ==
    /\ scopes[s].state = "exited"
    /\ scopes' = [scopes EXCEPT ![s] = [state |-> "dead", events |-> <<>>, dispatched |-> <<>>]]
    /\ receivers' = DropDead(receivers, s)
    /\ UNCHANGED <<registry, lock, suppress, settings, locals, txvars>>

\* ----------------------------------------------------------- specifications

\* One step of thread t, its inputs drawn from the function objects F, the
\* call arguments A and the scope objects S.
Step(t, F, A, S) ==
    \/ \E label \in Labels, func \in F : register_side_effect(t, label, func)
    \/ add_acquire(t)
    \/ add_append(t)
    \/ \E label \in Labels, args \in A : run_side_effects(t, label, args)
    \/ try_bind_all(t)
    \/ decide(t)
    \/ _run_func(t)
    \/ \E s \in S : enter(t, s)
    \/ exit(t)

\* The sequential program with one disable_side_effects object, under every
\* combination of the settings.
Next ==
    \/ Step(MainThread, Funcs, CallArgs, {"s1"})
    \/ \E s \in ScopeIds : collect(s)

Spec == Init /\ [][Next]_vars

DefaultSettings == ~TEST_MODE /\ ~TEST_MODE_FAIL /\ ~ABORT_ON_ERROR

\* The sequential program with several disable_side_effects objects, one after
\* the other or nested, under the default settings.
ScopeFuncs == {"rec", "noargs"}

ScopeArgs == {[n |-> 0, kw |-> {}], [n |-> 1, kw |-> {}]}

InitScopes == Init /\ DefaultSettings

NextScopes ==
    \/ Step(MainThread, ScopeFuncs, ScopeArgs, ScopeIds)
    \/ \E s \in ScopeIds : collect(s)

SpecScopes == InitScopes /\ [][NextScopes]_vars

\* The threaded program, under the default settings.
InitThreads == Init /\ DefaultSettings

NextThreads ==
    \/ \E t \in Threads : Step(t, ScopeFuncs, ScopeArgs, {"s1"})
    \/ \E s \in ScopeIds : collect(s)

SpecThreads == InitThreads /\ [][NextThreads]_vars

\* The sequential program with producers and atomic blocks and one
\* disable_side_effects object, under the default settings, with one label
\* and one consumer function to register.
TxLabels == {"a"}

InitTx == Init /\ DefaultSettings

NextTx ==
    \/ \E label \in TxLabels : register_side_effect(MainThread, label, "rec")
    \/ add_acquire(MainThread)
    \/ add_append(MainThread)
    \/ \E label \in TxLabels, args \in ScopeArgs : run_side_effects(MainThread, label, args)
    \/ try_bind_all(MainThread)
    \/ decide(MainThread)
    \/ _run_func(MainThread)
    \/ enter(MainThread, "s1")
    \/ exit(MainThread)
    \/ collect("s1")
    \/ \E label \in TxLabels, run_on_exit \in Predicates, func \in Producers, args \in ScopeArgs :
           inner_func(MainThread, label, run_on_exit, func, args)
    \/ inner_return(MainThread)
    \/ atomic_enter(MainThread)
    \/ \E commit \in BOOLEAN : atomic_exit(MainThread, commit)

SpecTx == InitTx /\ [][NextTx]_vars

\* The sequential program without scopes and blocks, with _run_func called on
\* its own as well, under every combination of the settings.
ErrFuncs == {"rec", "boom"}

NextErr ==
    \/ \E label \in Labels, func \in ErrFuncs : register_side_effect(MainThread, label, func)
    \/ add_acquire(MainThread)
    \/ add_append(MainThread)
    \/ \E label \in Labels, args \in ScopeArgs : run_side_effects(MainThread, label, args)
    \/ try_bind_all(MainThread)
    \/ decide(MainThread)
    \/ _run_func(MainThread)
    \/ \E func \in ErrFuncs, args \in ScopeArgs : run_one_func(MainThread, func, args)

SpecErr == Init /\ [][NextErr]_vars

\* The sequential program with one label, a consumer without parameters and
\* a consumer with one, one disable_side_effects object, and _run_func called
\* on its own as well, under every combination of the settings.
MismatchFuncs == {"noargs", "rec"}

NextMismatch ==
    \/ \E func \in MismatchFuncs : register_side_effect(MainThread, "a", func)
    \/ add_acquire(MainThread)
    \/ add_append(MainThread)
    \/ \E args \in CallArgs : run_side_effects(MainThread, "a", args)
    \/ try_bind_all(MainThread)
    \/ decide(MainThread)
    \/ _run_func(MainThread)
    \/ \E func \in MismatchFuncs, args \in CallArgs : run_one_func(MainThread, func, args)
    \/ enter(MainThread, "s1")
    \/ exit(MainThread)
    \/ collect("s1")

SpecMismatch == Init /\ [][NextMismatch]_vars

\* try_bind and _run_func called on their own with the functions of the tests,
\* under the default settings.  _run_func takes return_value as a parameter
\* of its own, so its **kwargs never hold that name; try_bind takes any keyword.
BindFuncs == Funcs \cup {"foo1", "foo3", "foo4", "foo5", "star"}

RunArgs == [n : 0..MaxPositional, kw : SUBSET {"x", "bar"}]

BindArgs == [n : 0..MaxPositional, kw : SUBSET {"x", "bar", "return_value"}]

InitBind == Init /\ DefaultSettings

NextBind ==
    \/ \E func \in BindFuncs, args \in BindArgs : try_bind_call(MainThread, func, args)
    \/ \E func \in BindFuncs, args \in RunArgs : run_one_func(MainThread, func, args)

SpecBind == InitBind /\ [][NextBind]_vars

\* The sequential program with the methods of Registry that read it called
\* on their own as well, under the default settings.
Queries == {"", "a", "b", "ab", "ba"}

InitReads == Init /\ DefaultSettings

NextReads ==
    \/ Step(MainThread, ScopeFuncs, ScopeArgs, {"s1"})
    \/ collect("s1")
    \/ \E label \in Labels, args \in ScopeArgs : try_bind_all_call(MainThread, label, args)
    \/ \E label \in Labels, func \in ScopeFuncs : contains_call(MainThread, label, func)
    \/ \E value \in Queries : by_label(MainThread, value)
    \/ \E value \in Queries : by_label_contains(MainThread, value)

SpecReads == InitReads /\ [][NextReads]_vars

\* The lists of at most n distinct functions of F.
RECURSIVE ListsOf(_, _)
ListsOf(F, n) ==
    IF n = 0 THEN {<<>>}
    ELSE LET shorter == ListsOf(F, n - 1)
         IN shorter \cup {Append(lst, func) : lst \in shorter, func \in F}

DistinctListsOf(F, n) ==
    {lst \in ListsOf(F, n) : \A i, j \in 1..Len(lst) : lst[i] = lst[j] => i = j}

\* The registries that registrations (and reads, for the empty lists) build
\* over the labels L with the functions F.
RegistriesOf(L, F, n) ==
    UNION {[keys -> DistinctListsOf(F, n)] : keys \in SUBSET L}

\* The system check run on a registry, under the default settings.
CheckFuncs == {"noargs", "foo1", "rec", "rec_dup", "typed"}

InitChecks ==
    /\ InitOn(RegistriesOf(Labels, CheckFuncs, MaxListed))
    /\ DefaultSettings

NextChecks == check_function_signatures(MainThread)

SpecChecks == InitChecks /\ [][NextChecks]_vars

\* The command display_side_effects run on a registry with each combination
\* of its options, under the default settings.
DisplayFuncs == {"rec", "noargs", "boom"}

DisplayOptions ==
    [label : {NoFilter, "a"}, label_contains : {NoFilter, "b"},
     raw : BOOLEAN, verbose : BOOLEAN, strict : BOOLEAN]

InitDisplay ==
    /\ InitOn(RegistriesOf(Labels, DisplayFuncs, MaxListed))
    /\ DefaultSettings

NextDisplay == \E options \in DisplayOptions : display_side_effects(MainThread, options)

SpecDisplay == InitDisplay /\ [][NextDisplay]_vars

\* http_response_check applied to responses and to other objects.  The value
\* of a response is its status_code; the other objects carry a number as
\* well (an int, or an object with a status_code that is not an HttpResponse).
StatusCodes == {100, 200, 300, 500, 700} \cup (395..405) \cup (595..605)

ResponseTypes == {"HttpResponse", "JsonResponse", "Mock", "int"}

Responses == [type : ResponseTypes, value : StatusCodes] \cup {NoneValue}

InitPredicate == Init /\ DefaultSettings

NextPredicate ==
    \E response \in Responses : http_response_check_call(MainThread, response)

SpecPredicate == InitPredicate /\ [][NextPredicate]_vars

\* The sequential program with functions decorated by is_side_effect_of,
\* called through the decorator's wrapper and run by dispatches, under the
\* default settings.
DecoratedFuncs == {"test_func", "rec", "boom"}

InitDecorators == Init /\ DefaultSettings

NextDecorators ==
    \/ \E label \in Labels, func \in DecoratedFuncs : is_side_effect_of(MainThread, label, func)
    \/ add_acquire(MainThread)
    \/ add_append(MainThread)
    \/ \E func \in DecoratedFuncs, args \in RunArgs : decorated_call(MainThread, func, args)
    \/ \E label \in Labels, args \in ScopeArgs : run_side_effects(MainThread, label, args)
    \/ try_bind_all(MainThread)
    \/ decide(MainThread)
    \/ _run_func(MainThread)

SpecDecorators == InitDecorators /\ [][NextDecorators]_vars

\* Two threads that register consumers for one label and dispatch it, under
\* the default settings.
InitRebind == Init /\ DefaultSettings

NextRebind ==
    \E t \in Threads :
        \/ \E func \in ScopeFuncs : register_side_effect(t, "a", func)
        \/ add_acquire(t)
        \/ add_append(t)
        \/ \E args \in ScopeArgs : run_side_effects(t, "a", args)
        \/ try_bind_all(t)
        \/ decide(t)
        \/ _run_func(t)

SpecRebind == InitRebind /\ [][NextRebind]_vars

\* Two threads that register consumers for one label and dispatch it, one of
\* the consumers raising, under every combination of the settings.
ConcurrentFuncs == {"rec", "boom"}

NextConcurrent ==
    \E t \in Threads :
        \/ \E func \in ConcurrentFuncs : register_side_effect(t, "a", func)
        \/ add_acquire(t)
        \/ add_append(t)
        \/ \E args \in ScopeArgs : run_side_effects(t, "a", args)
        \/ try_bind_all(t)
        \/ decide(t)
        \/ _run_func(t)

SpecConcurrent == Init /\ [][NextConcurrent]_vars

\* Two threads that register consumers under two labels, neither of them in
\* the registry at the start.
RegisterFuncs == {"rec", "rec_dup", "noargs"}

InitRegister == Init /\ DefaultSettings

NextRegister ==
    \E t \in Threads :
        \/ \E label \in Labels, func \in RegisterFuncs : register_side_effect(t, label, func)
        \/ add_acquire(t)
        \/ add_append(t)

SpecRegister == InitRegister /\ [][NextRegister]_vars

\* The threaded program with one label and a consumer that registers another
\* consumer while it runs, under the default settings.  A thread that can take
\* a step of the call it is in eventually takes one.
LockFuncs == {"registrar", "rec"}

InitLock == Init /\ DefaultSettings

Progress(t) ==
    \/ add_acquire(t)
    \/ add_append(t)
    \/ try_bind_all(t)
    \/ decide(t)
    \/ _run_func(t)
    \/ nested_acquire(t)
    \/ nested_append(t)

NextLock ==
    \E t \in Threads :
        \/ \E func \in LockFuncs : register_side_effect(t, "a", func)
        \/ \E args \in ScopeArgs : run_side_effects(t, "a", args)
        \/ Progress(t)

SpecLock == InitLock /\ [][NextLock]_vars /\ \A t \in Threads : WF_vars(Progress(t))

\* -------------------------------------------------------------- properties

\* The words of the claims, spelled out on the state.
SuppressionActive == suppress \/ TEST_MODE

CannotBind(func, args) ==
    /\ ~try_bind(func, args.n, args.kw \cup {"return_value"})
    /\ ~try_bind(func, args.n, args.kw)

\* The list registered for the label of the dispatch of thread t.
Listed(t) == Consumers(registry, op[t].label)

Dispatching(t) == op[t].kind = "run"

Returned(t) == Dispatching(t) /\ pc[t] = "idle"

RECURSIVE CountIn(_, _)
CountIn(x, lst) ==
    IF lst = <<>> THEN 0
    ELSE (IF Head(lst) = x THEN 1 ELSE 0) + CountIn(x, Tail(lst))

RECURSIVE Appenders(_)
Appenders(lst) ==
    IF lst = <<>> THEN 0
    ELSE (IF Body(Head(lst)) = "append" THEN 1 ELSE 0) + Appenders(Tail(lst))

\* C1: a dispatch whose label has a consumer that binds neither with nor
\* without return_value invokes no consumer at all, and ends by raising
\* SignatureMismatch.
C1_AllOrNothing ==
    \A t \in Threads :
        (Dispatching(t) /\ \E i \in 1..Len(Listed(t)) : CannotBind(Listed(t)[i], op[t].args))
            => /\ calls[t] = <<>>
               /\ pc[t] = "idle" => raised[t] = "SignatureMismatch"

\* A dispatch raised SignatureMismatch for its second consumer, after a first
\* one that binds.
C1_Witness ==
    /\ Returned(MainThread)
    /\ raised[MainThread] = "SignatureMismatch"
    /\ Len(Listed(MainThread)) = 2
    /\ ~CannotBind(Listed(MainThread)[1], op[MainThread].args)
    /\ CannotBind(Listed(MainThread)[2], op[MainThread].args)

\* What C2 promises of a dispatch that is over: one invocation per registered
\* consumer, in place, each with the caller's arguments, and the caller's list
\* holding what the consumers appended.
InvokedEachOnce(t) ==
    /\ Len(calls[t]) = Len(Listed(t))
    /\ \A i \in 1..Len(calls[t]) :
          /\ calls[t][i].func = Listed(t)[i]
          /\ calls[t][i].n = op[t].args.n
          /\ calls[t][i].kw = op[t].args.kw
    /\ shared_list[t] = Appenders(Listed(t))

AllBind(t) == \A i \in 1..Len(Listed(t)) : ~CannotBind(Listed(t)[i], op[t].args)

\* C2 as stated: a non-suppressed dispatch whose consumers all bind has, once
\* it is over, invoked each consumer exactly once with the caller's arguments.
C2_Original ==
    \A t \in Threads :
        (Returned(t) /\ ~SuppressionActive /\ AllBind(t)) => InvokedEachOnce(t)

\* C2 amended: the same, for a dispatch that is not cut short: TEST_MODE_FAIL
\* is off, and no consumer raises while ABORT_ON_ERROR is on.  Such a dispatch
\* returns without raising.
C2_InvokesEachOnce ==
    \A t \in Threads :
        ( /\ Returned(t) /\ ~SuppressionActive /\ AllBind(t)
          /\ ~TEST_MODE_FAIL
          /\ ~(ABORT_ON_ERROR /\ \E i \in 1..Len(Listed(t)) : Body(Listed(t)[i]) = "raise") )
            => InvokedEachOnce(t) /\ raised[t] = "none"

\* A dispatch invoked two consumers, both of which appended to the caller's list.
C2_Witness ==
    /\ Returned(MainThread) /\ ~SuppressionActive /\ ~TEST_MODE_FAIL
    /\ Len(calls[MainThread]) = 2
    /\ shared_list[MainThread] = 2

\* The consumers a dispatch has invoked are the leading entries of the label's
\* list, in list order.
InvokedInListOrder ==
    \A t \in Threads :
        Dispatching(t) =>
            /\ Len(calls[t]) <= Len(Listed(t))
            /\ \A i \in 1..Len(calls[t]) : calls[t][i].func = Listed(t)[i]

\* A list changes only by a registration, which puts the new function at the
\* end and keeps the earlier entries in place.
RegisteredLast ==
    \A l \in DOMAIN registry :
        registry'[l] # registry[l] =>
            /\ Len(registry'[l]) = Len(registry[l]) + 1
            /\ SubSeq(registry'[l], 1, Len(registry[l])) = registry[l]
            /\ \E t \in Threads : /\ pc[t] = "locked"
                                  /\ op[t].label = l
                                  /\ registry'[l][Len(registry'[l])] = op[t].func

\* C3: a dispatch invokes the consumers of its label in the order in which
\* they were registered: the list of a label is in registration order after
\* any sequence of registrations, and the dispatch follows the list.
C3_RegistrationOrder == []InvokedInListOrder /\ [][RegisteredLast]_vars

\* A dispatch invoked two different consumers, the first registered first.
C3_Witness ==
    /\ Returned(MainThread)
    /\ Len(calls[MainThread]) = 2
    /\ calls[MainThread][1].func # calls[MainThread][2].func
    /\ raised[MainThread] = "none"

\* C4: while the suppress flag or TEST_MODE is on, a dispatch has invoked no
\* consumer.
C4_NoConsumerWhileSuppressed ==
    \A t \in Threads : (Dispatching(t) /\ SuppressionActive) => calls[t] = <<>>

\* A dispatch inside a scope, of a label with a consumer, has returned.
C4_Witness ==
    /\ Returned(MainThread) /\ suppress /\ ~TEST_MODE
    /\ Listed(MainThread) # <<>>
    /\ raised[MainThread] = "none"

\* C5 as stated: a dispatch made while suppression is active has, once it is
\* over, sent exactly one notification, carrying its label.
C5_Original ==
    \A t \in Threads :
        (Returned(t) /\ SuppressionActive) => sent[t] = <<op[t].label>>

\* C5 amended: a dispatch made while suppression is active never sends more
\* than one notification; it has sent exactly one, carrying its label, when it
\* returns, and none when it raises SignatureMismatch, which it does exactly
\* when a consumer of the label cannot bind.
C5_OneNotification ==
    \A t \in Threads :
        (Dispatching(t) /\ SuppressionActive) =>
            /\ Len(sent[t]) <= 1
            /\ (pc[t] = "idle" /\ AllBind(t)) =>
                   (sent[t] = <<op[t].label>> /\ raised[t] = "none")
            /\ (pc[t] = "idle" /\ ~AllBind(t)) =>
                   (sent[t] = <<>> /\ raised[t] = "SignatureMismatch")

\* A suppressed dispatch of a label with two consumers has sent its notification.
C5_Witness ==
    /\ Returned(MainThread) /\ SuppressionActive
    /\ Len(Listed(MainThread)) = 2
    /\ sent[MainThread] = <<op[MainThread].label>>

\* C6 as stated: the events list of an open scope is the sequence of the
\* labels dispatched inside it (by the calls that returned), in call order.
C6_EventsAreDispatchedLabels ==
    \A s \in ScopeIds :
        scopes[s].state = "open" => scopes[s].events = scopes[s].dispatched

\* The scope a thread leaves in this step, if it leaves one.
Leaves(t, s) ==
    /\ Len(stack'[t]) < Len(stack[t])
    /\ s = stack[t][Len(stack[t])]

\* C7 as stated: when a scope exits, the suppress flag is false and the
\* scope's listener is no longer connected to suppressed_side_effect.
C7_ExitRestores ==
    [][\A t \in Threads, s \in ScopeIds :
          Leaves(t, s) => (~suppress' /\ s \notin Listening')]_vars

\* Once a call register_side_effect(label, f) is over, the label's list holds
\* f exactly once.
ListedOnce ==
    \A t \in Threads :
        (op[t].kind = "register" /\ pc[t] = "idle")
            => CountIn(op[t].func, Consumers(registry, op[t].label)) = 1

\* A call register_side_effect(label, f) that starts when f is in the label's
\* list returns at once and leaves the registry as it was.
SecondCallChangesNothing ==
    \A t \in Threads :
        ( /\ pc[t] = "idle" /\ op'[t].kind = "register"
          /\ CountIn(op'[t].func, Consumers(registry, op'[t].label)) > 0 )
            => (registry' = registry /\ pc'[t] = "idle")

\* C8: in the sequential program, register_side_effect called again with the
\* same label and function changes nothing, and the label's list holds the
\* function exactly once.
C8_IdempotentRegistration == []ListedOnce /\ [][SecondCallChangesNothing]_vars

\* rec was registered for "a" before noargs, and a later call to register rec
\* for "a" again is over.
C8_Witness ==
    /\ op[MainThread] = [kind |-> "register", label |-> "a", func |-> "rec", args |-> NoArgs]
    /\ pc[MainThread] = "idle"
    /\ Consumers(registry, "a") = <<"rec", "noargs">>

\* C9 as stated: no list of the registry holds the same function object twice.
C9_PairAtMostOnce ==
    \A l \in DOMAIN registry :
        \A i, j \in 1..Len(registry[l]) : registry[l][i] = registry[l][j] => i = j

\* C10 as stated: a call register_side_effect(label, g) made when a consumer
\* with the qualified name of g is registered for label returns at once and
\* leaves the registry as it was.
C10_SameNameIsNoOp ==
    [][\A t \in Threads :
          ( /\ pc[t] = "idle" /\ op'[t].kind = "register"
            /\ contains(registry, op'[t].label, op'[t].func) )
              => (registry' = registry /\ pc'[t] = "idle")]_vars

\* The labels of the dispatches requested inside the atomic block of thread t.
RequestedLabels(t) == [i \in 1..Len(tx_requests[t]) |-> tx_requests[t][i].label]

\* Dispatches were requested inside the atomic block of thread t, for labels
\* that have consumers, with arguments that the consumers bind, and no
\* disable_side_effects scope was ever entered.
RequestedForConsumers(t) ==
    /\ tx_requests[t] # <<>>
    /\ \A i \in 1..Len(tx_requests[t]) :
          LET lst == Consumers(registry, tx_requests[t][i].label)
          IN /\ lst # <<>>
             /\ \A j \in 1..Len(lst) : ~CannotBind(lst[j], tx_requests[t][i].args)
    /\ \A s \in ScopeIds : scopes[s].state = "new"

\* The last thing thread t did was to leave its atomic block.
JustLeftBlock(t) == op[t].kind = "atomic_exit" /\ pc[t] = "idle"

\* C11 as stated: a dispatch requested inside an active atomic block is not
\* performed inline: while the block is active no consumer has been invoked,
\* and once it has committed the commit has run as many dispatches as were
\* requested.
C11_DeferredUntilCommit ==
    \A t \in Threads :
        /\ tx[t] = "active" => tx_calls[t] = 0
        /\ (tx[t] = "committed" /\ RequestedForConsumers(t))
               => Len(ran_on_commit[t]) = Len(tx_requests[t])

\* C12 as stated: when the atomic block in which dispatches were requested
\* has rolled back, no consumer of those dispatches has been invoked, then or
\* before.
C12_RollbackRunsNothing ==
    \A t \in Threads :
        (tx[t] = "rolled_back" /\ tx_requests[t] # <<>>) => tx_calls[t] = 0

\* C13 as stated: the commit of an atomic block runs the dispatches requested
\* inside the block, in the order in which they were requested.
C13_CommitRunsInRequestOrder ==
    \A t \in Threads :
        (JustLeftBlock(t) /\ tx[t] = "committed" /\ RequestedForConsumers(t))
            => ran_on_commit[t] = RequestedLabels(t)

\* C14: a dispatch requested outside of an atomic block leaves nothing for a
\* commit to run, and when it has returned without raising, with suppression
\* off, every consumer of the label has been invoked.
C14_ImmediateOutsideBlock ==
    \A t \in Threads :
        (Returned(t) /\ tx[t] # "active") =>
            /\ hooks[t] = <<>>
            /\ (~SuppressionActive /\ raised[t] = "none") => InvokedEachOnce(t)

\* A dispatch made with no atomic block ever opened has returned, its
\* consumer invoked.
C14_Witness ==
    /\ Returned(MainThread) /\ tx[MainThread] = "none"
    /\ frame[MainThread].state = "none"
    /\ Len(calls[MainThread]) = 1
    /\ raised[MainThread] = "none"

\* The scopes thread t is inside of whose only dispatches are the ones the
\* has_side_effects wrappers requested inside the thread's atomic block.
ScopeAroundBlock(t, s) ==
    /\ s \in SeqToSet(stack[t])
    /\ scopes[s].state = "open"
    /\ tx_requests[t] # <<>>
    /\ \A i \in 1..Len(tx_requests[t]) : tx_requests[t][i].by = "has_side_effects"
    /\ scopes[s].dispatched = RequestedLabels(t)

\* C15 as stated: with suppression active, when the atomic block around
\* has_side_effects producers that completed rolls back, the events of the
\* scope are empty; when it commits, they are the labels of the producers.
C15_RollbackLeavesNoEvent ==
    \A t \in Threads, s \in ScopeIds :
        (JustLeftBlock(t) /\ ScopeAroundBlock(t, s)) =>
            /\ tx[t] = "rolled_back" => scopes[s].events = <<>>
            /\ tx[t] = "committed" => scopes[s].events = RequestedLabels(t)

\* C16: a direct run_side_effects call made inside an atomic block while the
\* suppress flag is on has, when it returns, sent its label once, the open
\* scope has it as its last event, and nothing was handed to on_commit.
C16_SuppressedInBlockIsImmediate ==
    \A t \in Threads :
        ( /\ Returned(t) /\ frame[t].state = "none"
          /\ tx[t] = "active" /\ suppress /\ raised[t] = "none" ) =>
            /\ sent[t] = <<op[t].label>>
            /\ hooks[t] = <<>>
            /\ \A s \in SeqToSet(stack[t]) :
                  /\ scopes[s].events # <<>>
                  /\ scopes[s].events[Len(scopes[s].events)] = op[t].label

\* Inside a scope and an atomic block, a direct call for a label that has a
\* consumer has returned.
C16_Witness ==
    /\ Returned(MainThread) /\ frame[MainThread].state = "none"
    /\ tx[MainThread] = "active" /\ suppress
    /\ stack[MainThread] = <<"s1">>
    /\ Listed(MainThread) # <<>>
    /\ scopes["s1"].events = <<op[MainThread].label>>

\* A call of a has_side_effects wrapper by thread t is over.
WrapperOver(t) == frame[t].state \in {"returned", "raised"} /\ pc[t] = "idle"

\* C17: when the function wrapped by has_side_effects raises, the wrapper
\* lets the exception through and calls no run_side_effects: no consumer is
\* invoked and no notification is sent for that call.
C17_ProducerErrorPreventsDispatch ==
    \A t \in Threads :
        (frame[t].state # "none" /\ frame[t].func = "fail") =>
            /\ frame[t].state = "raised" /\ frame[t].exc = "Exception"
            /\ frame[t].requested = <<>>
            /\ op[t].kind = "wrapper" /\ pc[t] = "idle"
            /\ calls[t] = <<>> /\ sent[t] = <<>>

\* The wrapper of the function that raises was called, with suppression on,
\* for a label that has a consumer.
C17_Witness ==
    /\ frame[MainThread].state = "raised" /\ frame[MainThread].func = "fail"
    /\ suppress
    /\ Consumers(registry, frame[MainThread].label) # <<>>

\* What the predicate p says of the value r.
PredicateHolds(p, r) ==
    /\ p # "never"
    /\ ~(r.type = "HttpResponse" /\ r.value >= 400 /\ r.value <= 599)

\* C18: a has_side_effects(label, run_on_exit=p) wrapper whose function
\* returned result calls run_side_effects once, with label, the arguments of
\* the call and return_value=result, when p(result) is true, and not at all
\* when it is false.
C18_DispatchIffPredicate ==
    \A t \in Threads :
        LET f == frame[t]
            result == ProducerResult(f.func)
        IN (f.state # "none" /\ f.func # "fail") =>
              IF PredicateHolds(f.run_on_exit, result)
              THEN /\ f.requested = <<[label |-> f.label, args |-> f.args,
                                        return_value |-> result]>>
                   /\ op[t] = [kind |-> "run", label |-> f.label, func |-> "rec",
                               args |-> f.args]
              ELSE /\ f.requested = <<>>
                   /\ op[t].kind = "wrapper"
                   /\ calls[t] = <<>> /\ sent[t] = <<>>

\* The wrapper of a view that returned a 200 response has dispatched to a
\* consumer, and returned.
C18_Witness ==
    /\ WrapperOver(MainThread)
    /\ frame[MainThread].func = "view_ok"
    /\ frame[MainThread].state = "returned"
    /\ Len(calls[MainThread]) = 1

\* C19 as stated: a call of a has_side_effects wrapper whose function
\* returned normally returns the result of the function.
C19_Original ==
    \A t \in Threads :
        (WrapperOver(t) /\ frame[t].func # "fail") =>
            /\ frame[t].state = "returned"
            /\ frame[t].returned = ProducerResult(frame[t].func)

\* C19 amended: a call of a has_side_effects wrapper whose function returned
\* normally returns the result of the function, whatever the predicate says,
\* unless the dispatch it makes raises; then that exception goes to the
\* caller.
C19_ReturnsResult ==
    \A t \in Threads :
        (WrapperOver(t) /\ frame[t].func # "fail") =>
            IF raised[t] = "none"
            THEN /\ frame[t].state = "returned"
                 /\ frame[t].returned = ProducerResult(frame[t].func)
            ELSE /\ frame[t].state = "raised"
                 /\ frame[t].exc = raised[t]

\* The wrapper of a view returned the 404 response of the view, and the
\* predicate had said no.
C19_Witness ==
    /\ WrapperOver(MainThread)
    /\ frame[MainThread].func = "view_bad"
    /\ frame[MainThread].run_on_exit = "http_response_check"
    /\ frame[MainThread].returned = [type |-> "HttpResponse", value |-> 404]

\* The invocations among lst whose function raised.
RECURSIVE Raisers(_)
Raisers(lst) ==
    IF lst = <<>> THEN 0
    ELSE (IF Body(Head(lst).func) = "raise" THEN 1 ELSE 0) + Raisers(Tail(lst))

\* A call of run_side_effects or of _run_func by thread t is over.
RunOver(t) == op[t].kind \in {"run", "_run_func"} /\ pc[t] = "idle"

\* C20 as stated: with ABORT_ON_ERROR off, a call in which a consumer raised
\* an exception does not raise, has logged each such exception once, and, when
\* it is a dispatch, has invoked every consumer of the label.
C20_Original ==
    \A t \in Threads :
        (RunOver(t) /\ Raisers(calls[t]) > 0 /\ ~ABORT_ON_ERROR) =>
            /\ raised[t] = "none"
            /\ logged[t] = Raisers(calls[t])
            /\ op[t].kind = "run" => InvokedEachOnce(t)

\* C20 amended: the same with ABORT_ON_ERROR and TEST_MODE_FAIL both off; and a
\* call raises the exception of a consumer only when one of the two is on.
C20_LoggedNotRaised ==
    \A t \in Threads :
        /\ (RunOver(t) /\ Raisers(calls[t]) > 0 /\ ~ABORT_ON_ERROR /\ ~TEST_MODE_FAIL) =>
              /\ raised[t] = "none"
              /\ logged[t] = Raisers(calls[t])
              /\ op[t].kind = "run" => InvokedEachOnce(t)
        /\ raised[t] = "Exception" => (ABORT_ON_ERROR \/ TEST_MODE_FAIL)

\* A dispatch whose first consumer raised has gone on to invoke the second.
C20_Witness ==
    /\ RunOver(MainThread) /\ op[MainThread].kind = "run"
    /\ ~ABORT_ON_ERROR /\ ~TEST_MODE_FAIL
    /\ Len(calls[MainThread]) = 2
    /\ calls[MainThread][1].func = "boom"
    /\ calls[MainThread][2].func = "rec"
    /\ logged[MainThread] = 1

\* C21: with ABORT_ON_ERROR on, a dispatch in which a consumer raised is over
\* at once and has raised that exception: the consumer that raised is the
\* last one invoked, and the consumers listed after it were not invoked.
C21_AbortStopsDispatch ==
    \A t \in Threads :
        (op[t].kind = "run" /\ ABORT_ON_ERROR /\ Raisers(calls[t]) > 0) =>
            /\ pc[t] = "idle"
            /\ raised[t] = "Exception"
            /\ Raisers(calls[t]) = 1
            /\ Body(calls[t][Len(calls[t])].func) = "raise"
            /\ \A i \in 1..Len(calls[t]) : calls[t][i].func = Listed(t)[i]

\* With ABORT_ON_ERROR on, a dispatch of a label whose list is boom, rec has
\* raised after invoking boom alone.
C21_Witness ==
    /\ RunOver(MainThread) /\ op[MainThread].kind = "run"
    /\ ABORT_ON_ERROR
    /\ Listed(MainThread) = <<"boom", "rec">>
    /\ Len(calls[MainThread]) = 1
    /\ raised[MainThread] = "Exception"

\* C22: a call of run_side_effects for a label with a consumer that binds
\* neither way, and a call of _run_func on such a consumer, ends by raising
\* SignatureMismatch, whatever ABORT_ON_ERROR, TEST_MODE, TEST_MODE_FAIL and
\* the suppress flag are; a consumer without parameters called with a
\* positional or a keyword argument is such a consumer.
C22_MismatchAlwaysRaised ==
    \A t \in Threads :
        /\ ( /\ op[t].kind = "run" /\ pc[t] = "idle"
             /\ \E i \in 1..Len(Listed(t)) : CannotBind(Listed(t)[i], op[t].args) )
               => raised[t] = "SignatureMismatch"
        /\ (op[t].kind = "_run_func" /\ CannotBind(op[t].func, op[t].args))
               => raised[t] = "SignatureMismatch"
        /\ ( /\ op[t].kind = "_run_func" /\ op[t].func = "noargs"
             /\ (op[t].args.n > 0 \/ op[t].args.kw # {}) )
               => raised[t] = "SignatureMismatch"
        /\ ( /\ op[t].kind = "run" /\ pc[t] = "idle"
             /\ "noargs" \in SeqToSet(Listed(t))
             /\ (op[t].args.n > 0 \/ op[t].args.kw # {}) )
               => raised[t] = "SignatureMismatch"

\* Inside a scope, with ABORT_ON_ERROR off, a dispatch with a keyword argument
\* for a label that lists the consumer without parameters has raised
\* SignatureMismatch.
C22_Witness ==
    /\ op[MainThread].kind = "run" /\ pc[MainThread] = "idle"
    /\ suppress /\ ~ABORT_ON_ERROR
    /\ "noargs" \in SeqToSet(Listed(MainThread))
    /\ op[MainThread].args.kw # {}
    /\ raised[MainThread] = "SignatureMismatch"

TakenByPosition(func, n, p) ==
    \E i \in 1..n : i <= Len(Signature(func).pos) /\ Signature(func).pos[i] = p

Declared(func) == SeqToSet(Signature(func).pos) \cup Signature(func).kwonly

Binds(func, n, kws) ==
    /\ n <= Len(Signature(func).pos) \/ Signature(func).varargs
    /\ \A k \in kws : k \in Declared(func) \/ Signature(func).varkw
    /\ \A p \in Declared(func) \ Signature(func).defaults :
           TakenByPosition(func, n, p) \/ p \in kws
    /\ \A p \in Declared(func) : ~(TakenByPosition(func, n, p) /\ p \in kws)

\* C24: every consumer that was invoked was given return_value exactly when
\* the call with return_value binds, and was given the arguments alone exactly
\* when that call does not bind and the call without return_value does; a
\* consumer that declares neither return_value nor **kwargs was never given
\* return_value; a _run_func that invoked nothing is one where neither binds.
C24_WithThenWithout ==
    \A t \in Threads :
        /\ \A i \in 1..Len(calls[t]) :
              LET c == calls[t][i]
              IN /\ c.rv = "passed" <=> Binds(c.func, c.n, c.kw \cup {"return_value"})
                 /\ c.rv = "omitted" <=>
                       /\ ~Binds(c.func, c.n, c.kw \cup {"return_value"})
                       /\ Binds(c.func, c.n, c.kw)
                 /\ ("return_value" \notin Declared(c.func) /\ ~Signature(c.func).varkw)
                       => c.rv = "omitted"
        /\ op[t].kind = "_run_func" =>
              (calls[t] = <<>> <=>
                  /\ ~Binds(op[t].func, op[t].args.n, op[t].args.kw \cup {"return_value"})
                  /\ ~Binds(op[t].func, op[t].args.n, op[t].args.kw))

\* _run_func(foo4, 1) has called foo4(1): return_value is declared, but the
\* call with return_value=... gives that parameter two values, so the second
\* form is the one used.
C24_Witness ==
    /\ op[MainThread].kind = "_run_func"
    /\ op[MainThread].func = "foo4"
    /\ op[MainThread].args = [n |-> 1, kw |-> {}]
    /\ calls[MainThread] = <<[func |-> "foo4", n |-> 1, kw |-> {}, rv |-> "omitted"]>>

\* C25: a call of try_bind returns True exactly when the arguments bind to the
\* declared parameters of the function, it raises nothing and it has not
\* invoked the function.
C25_TryBindIffBinds ==
    \A t \in Threads :
        op[t].kind = "try_bind" =>
            /\ frame[t].returned =
                   BoolValue(Binds(op[t].func, op[t].args.n, op[t].args.kw))
            /\ raised[t] = "none"
            /\ calls[t] = <<>>
            /\ shared_list[t] = 0

\* try_bind(foo3, 1, 2, return_value=1) has returned True.
C25_Witness ==
    /\ op[MainThread].kind = "try_bind"
    /\ op[MainThread].func = "foo3"
    /\ op[MainThread].args = [n |-> 2, kw |-> {"return_value"}]
    /\ frame[MainThread].returned = BoolValue(TRUE)
    /\ calls[MainThread] = <<>>

\* A step of a call of run_side_effects by thread t: the call itself or one of
\* the steps up to its end.
DispatchStep(t) ==
    /\ op'[t].kind = "run"
    /\ pc[t] # "idle" \/ pc'[t] # "idle"
    /\ pc[t] = "idle" \/ op[t].kind = "run"

\* C26: a call of run_side_effects for a label with no registered consumer
\* invokes no consumer, raises nothing and leaves the registry as it was.
C26_NoConsumersNoOp ==
    [][\A t \in Threads :
          (DispatchStep(t) /\ Consumers(registry, op'[t].label) = <<>>) =>
              /\ registry' = registry
              /\ calls'[t] = <<>>
              /\ raised'[t] = "none"]_vars

\* C27: the registry changes only in the append of a registration, made by
\* the thread that holds the lock; no step of run_side_effects, try_bind_all,
\* contains, by_label or by_label_contains changes the mapping or its keys.
C27_OnlyLockedRegistrationWrites ==
    [][registry' # registry =>
          \E t \in Threads :
              /\ lock = t
              /\ op[t].kind = "register"
              /\ pc[t] = "locked"
              /\ DOMAIN registry' = DOMAIN registry \cup {op[t].label}]_vars

\* The lock is held by a thread only between the acquire and the append of a
\* Registry.add: no thread holds it while it binds, decides, or is about to
\* invoke a consumer.
LockOnlyForAppend ==
    \A t \in Threads : lock = t => pc[t] \in {"locked", "nested_locked"}

\* When some thread is inside a call, some thread inside a call can take a step.
NoDeadlock ==
    (\E t \in Threads : pc[t] # "idle") =>
        \E u \in Threads : pc[u] # "idle" /\ ENABLED Progress(u)

\* C28: the lock is held only for the append of Registry.add and never while
\* the dispatch invokes a consumer; no interleaving of registrations and
\* dispatches, the registrations made by a running consumer included, reaches
\* a state where the threads inside a call are all blocked; and every
\* dispatch comes to its end, returning or raising.
C28_LockOnlyForAppend ==
    /\ []LockOnlyForAppend
    /\ []NoDeadlock
    /\ \A t \in Threads : (op[t].kind = "run" /\ pc[t] # "idle") ~> (pc[t] = "idle")

\* The consumer run by t1 waits for the lock while t2 is appending.
C28_Witness ==
    /\ op["t1"].kind = "run"
    /\ pc["t1"] = "nested_add"
    /\ lock = "t2"
    /\ pc["t2"] = "locked"

\* Some function in the label's list, as the registry holds it now, binds the
\* arguments of the dispatch of thread t neither with return_value nor without.
NonBinderRegistered(t) ==
    \E i \in 1..Len(registry[op[t].label]) :
        LET func == registry[op[t].label][i]
        IN /\ ~Binds(func, op[t].args.n, op[t].args.kw \cup {"return_value"})
           /\ ~Binds(func, op[t].args.n, op[t].args.kw)

\* C29: the binding check of a dispatch ends with SignatureMismatch exactly
\* when a consumer registered for the label at that moment cannot bind the
\* arguments, whatever earlier dispatches of the label did: nothing of an
\* earlier check is kept.
C29_BindingCheckedAfresh ==
    [][\A t \in Threads :
          (pc[t] = "bind" /\ pc'[t] # "bind") =>
              /\ raised'[t] = "SignatureMismatch" <=> NonBinderRegistered(t)
              /\ raised'[t] = "SignatureMismatch" => pc'[t] = "idle" /\ calls'[t] = <<>>
              /\ raised'[t] # "SignatureMismatch" => pc'[t] = "decide"]_vars

\* The dispatch of "a" with no argument by t2 succeeded and invoked noargs;
\* rec(x) was registered after it; the same dispatch by t1 has raised
\* SignatureMismatch and invoked nothing.
C29_Witness ==
    /\ Returned("t2") /\ Returned("t1")
    /\ op["t2"].args = NoArgs /\ op["t1"].args = NoArgs
    /\ op["t2"].label = "a" /\ op["t1"].label = "a"
    /\ raised["t2"] = "none"
    /\ Len(calls["t2"]) = 1 /\ calls["t2"][1].func = "noargs"
    /\ registry["a"] = <<"noargs", "rec">>
    /\ raised["t1"] = "SignatureMismatch"
    /\ calls["t1"] = <<>>

\* C30: while is_side_effect_of(label)(f) runs and when it is over, f has
\* not been invoked, and when it is over f is in the list of label; a call
\* of the function the decorator returned calls f once with the arguments of
\* the call and ends as that call of f ends: it returns the value f returns,
\* or raises what f raises.
C30_RegistersAndPassesThrough ==
    \A t \in Threads :
        /\ op[t].kind = "is_side_effect_of" =>
              /\ calls[t] = <<>> /\ shared_list[t] = 0
              /\ pc[t] = "idle" =>
                    \E i \in 1..Len(Listed(t)) : Listed(t)[i] = op[t].func
        /\ op[t].kind = "decorated_call" =>
              IF Binds(op[t].func, op[t].args.n, op[t].args.kw)
              THEN /\ calls[t] = <<[func |-> op[t].func, n |-> op[t].args.n,
                                    kw |-> op[t].args.kw, rv |-> "omitted"]>>
                   /\ IF Body(op[t].func) = "raise"
                      THEN frame[t].state = "raised" /\ raised[t] = "Exception"
                      ELSE /\ frame[t].state = "returned" /\ raised[t] = "none"
                           /\ frame[t].returned =
                                  (IF op[t].func = "test_func"
                                   THEN [type |-> "int", value |-> 3]
                                   ELSE [type |-> "NoneType", value |-> 0])
              ELSE calls[t] = <<>> /\ frame[t].state = "raised" /\ raised[t] = "TypeError"

\* test_func was registered under "a" by the decorator and the decorated
\* function, called with two arguments, has returned 3.
C30_Witness ==
    /\ "a" \in DOMAIN registry
    /\ registry["a"] = <<"test_func">>
    /\ op[MainThread].kind = "decorated_call"
    /\ op[MainThread].func = "test_func"
    /\ op[MainThread].args = [n |-> 2, kw |-> {}]
    /\ frame[MainThread].returned = [type |-> "int", value |-> 3]

\* C31: a call of http_response_check returns False exactly when its argument
\* is an HttpResponse (or an object of a class derived from it) whose
\* status_code is from 400 to 599, and True for everything else.
C31_HttpResponseCheck ==
    \A t \in Threads :
        op[t].kind = "http_response_check" =>
            LET r == frame[t].return_value
            IN /\ frame[t].returned \in {[type |-> "bool", value |-> 0],
                                          [type |-> "bool", value |-> 1]}
               /\ frame[t].returned.value = 0 <=>
                     /\ r.type \in {"HttpResponse", "JsonResponse"}
                     /\ r.value \in 400..599

\* http_response_check has returned True for a response with status_code 600.
C31_Witness ==
    /\ op[MainThread].kind = "http_response_check"
    /\ frame[MainThread].return_value = [type |-> "HttpResponse", value |-> 600]
    /\ frame[MainThread].returned = [type |-> "bool", value |-> 1]

\* The pairs <<v, k>> of strings of the model where v occurs in k.
OccursIn ==
    {<<"", "a">>, <<"", "ab">>, <<"a", "a">>, <<"a", "ab">>, <<"b", "ab">>, <<"ab", "ab">>}

\* C32: by_label_contains(v) has returned exactly the items of the registry
\* whose label contains v, the whole mapping when v is the empty string;
\* by_label(v) has returned the item whose label is v, and an empty mapping
\* when there is none.
C32_FiltersByLabel ==
    \A t \in Threads :
        /\ op[t].kind = "by_label_contains" =>
              /\ frame[t].returned.type = "dict"
              /\ DOMAIN frame[t].returned.value =
                     {k \in DOMAIN registry : <<op[t].label, k>> \in OccursIn}
              /\ \A k \in DOMAIN frame[t].returned.value :
                     frame[t].returned.value[k] = registry[k]
              /\ op[t].label = "" => frame[t].returned.value = registry
        /\ op[t].kind = "by_label" =>
              /\ frame[t].returned.type = "dict"
              /\ frame[t].returned.value =
                     (IF op[t].label \in DOMAIN registry
                      THEN [k \in {op[t].label} |-> registry[k]]
                      ELSE [k \in {} |-> <<>>])

\* With consumers under "a" and under "ab", by_label_contains("b") has
\* returned the item of "ab" alone.
C32_Witness ==
    /\ op[MainThread].kind = "by_label_contains"
    /\ op[MainThread].label = "b"
    /\ DOMAIN registry = {"a", "ab"}
    /\ registry["a"] # <<>> /\ registry["ab"] # <<>>
    /\ DOMAIN frame[MainThread].returned.value = {"ab"}

\* The parameters each function declares besides return_value, annotations
\* included, as the claim compares them.
DeclaredShape(func) ==
    CASE func \in {"noargs", "foo1"}  -> "()"
      [] func \in {"rec", "rec_dup"}  -> "(x)"
      [] func = "typed"               -> "(x: Goo)"

\* The number of the messages of the list msgs that are about label.
RECURSIVE MessagesAbout(_, _)
MessagesAbout(msgs, label) ==
    IF msgs = <<>> THEN 0
    ELSE (IF Head(msgs).label = label THEN 1 ELSE 0) + MessagesAbout(Tail(msgs), label)

\* C33: check_function_signatures has returned warnings only, one for each
\* label of the registry whose consumers declare different parameters once
\* return_value is left out, and none for any other label.
C33_OneWarningPerMixedLabel ==
    \A t \in Threads :
        op[t].kind = "check_function_signatures" =>
            LET msgs == frame[t].returned.value
            IN /\ \A i \in 1..Len(msgs) :
                     msgs[i].level = "Warning" /\ msgs[i].label \in DOMAIN registry
               /\ \A label \in DOMAIN registry :
                     MessagesAbout(msgs, label) =
                         (IF \E i, j \in 1..Len(registry[label]) :
                                 DeclaredShape(registry[label][i]) #
                                     DeclaredShape(registry[label][j])
                          THEN 1 ELSE 0)

\* The check has returned one warning, about "ab", where rec(x) and noargs()
\* are registered, and none about "a", where rec(x) and
\* rec_dup(x, return_value) are.
C33_Witness ==
    /\ op[MainThread].kind = "check_function_signatures"
    /\ DOMAIN registry = {"a", "ab"}
    /\ registry["a"] = <<"rec", "rec_dup">>
    /\ registry["ab"] = <<"rec", "noargs">>
    /\ Len(frame[MainThread].returned.value) = 1
    /\ frame[MainThread].returned.value[1].label = "ab"

\* The labels the options of the command select.
SelectedLabels(options) ==
    IF options.label # ""
    THEN {k \in DOMAIN registry : k = options.label}
    ELSE IF options.label_contains # ""
    THEN {k \in DOMAIN registry : <<options.label_contains, k>> \in OccursIn}
    ELSE DOMAIN registry

\* The consumers of the selected labels that have no docstring.
Undocumented(options) ==
    {<<k, i>> \in SelectedLabels(options) \X (1..MaxListed + 1) :
        i <= Len(registry[k]) /\ registry[k][i] \in {"noargs", "boom"}}

\* C34: run with --strict, the command has exited with the number of the
\* consumers of the selected labels that have no docstring, whatever the
\* output mode.
C34_StrictExitCountsMissing ==
    \A t \in Threads :
        (op[t].kind = "display_side_effects" /\ op[t].args.strict) =>
            /\ frame[t].returned.type = "SystemExit"
            /\ frame[t].returned.value = Cardinality(Undocumented(op[t].args))

\* C35: while some disable_side_effects scope has been entered and has not
\* exited, a call of run_side_effects has invoked no consumer.
C35_OpenScopeSuppresses ==
    \A t \in Threads :
        (op[t].kind = "run" /\ \E s \in ScopeIds : scopes[s].state = "open") =>
            calls[t] = <<>>

\* No step appends to the events list of a scope that has exited.
ExitedEventsKept ==
    \A s \in ScopeIds :
        (scopes[s].state = "exited" /\ scopes'[s].state = "exited") =>
            scopes'[s].events = scopes[s].events

\* A step that sends a suppressed notification while a scope is open appends
\* the label to the events list of the scope entered last.
OwnEventsReceived ==
    \A t \in Threads :
        (Len(sent'[t]) > Len(sent[t]) /\ stack[t] # <<>>) =>
            LET s == stack[t][Len(stack[t])]
            IN scopes'[s].events = Append(scopes[s].events, op[t].label)

\* C36: once a disable_side_effects scope has exited, no later dispatch
\* appends to its events list, also when the dispatch is made inside a later
\* scope while the object of the earlier one is still referenced; the later
\* scope's own list receives the dispatch.
C36_ExitedScopeGetsNoEvents == [][ExitedEventsKept /\ OwnEventsReceived]_vars

\* C37: in a call of run_side_effects, the consumers invoked are, one for
\* one, consumers that try_bind_all bound in that call, and a call that
\* raised SignatureMismatch has invoked none: all or nothing, also when
\* consumers are registered while the call runs.
C37_InvokedWereChecked ==
    \A t \in Threads :
        op[t].kind = "run" =>
            /\ Len(calls[t]) <= Len(observed[t].bound)
            /\ \A i \in 1..Len(calls[t]) : calls[t][i].func = observed[t].bound[i]
            /\ raised[t] = "SignatureMismatch" => calls[t] = <<>>

\* The call of run_side_effects of thread t has invoked the entries that were
\* in the label's list when it was called, each once, in the order of the list
\* and before any other.
StartListInvoked(t) ==
    /\ Len(calls[t]) >= Len(observed[t].listed)
    /\ \A i \in 1..Len(observed[t].listed) : calls[t][i].func = observed[t].listed[i]

IsPrefix(small, large) ==
    /\ Len(small) <= Len(large)
    /\ \A i \in 1..Len(small) : small[i] = large[i]

\* C39: no registration is lost.  Whatever the interleaving of the threads, a
\* call of register_side_effect that has returned leaves its consumer in the
\* list of its label, and no step of any thread takes a key out of the
\* registry or an entry out of a list.
C39_NoRegistrationLost ==
    [][/\ \A l \in DOMAIN registry :
             l \in DOMAIN registry' /\ IsPrefix(registry[l], registry'[l])
       /\ \A t \in Threads :
             (op'[t].kind = "register" /\ pc'[t] = "idle")
                 => InList(op'[t].func, Consumers(registry', op'[t].label))]_vars

\* Both threads have returned from register_side_effect for the label "ab",
\* which was not in the registry: t2 registered rec, t1 noargs, and the list
\* holds both.
C39_Witness ==
    /\ pc["t1"] = "idle" /\ op["t1"].kind = "register"
    /\ op["t1"].label = "ab" /\ op["t1"].func = "noargs"
    /\ pc["t2"] = "idle" /\ op["t2"].kind = "register"
    /\ op["t2"].label = "ab" /\ op["t2"].func = "rec"
    /\ Consumers(registry, "ab") = <<"rec", "noargs">>

\* The functions the call of run_side_effects of thread t has invoked, in
\* the order of the invocations.
InvokedFuncs(t) == [i \in 1..Len(calls[t]) |-> calls[t][i].func]

\* C40: run_side_effects(L, ...) looks at the list under the key L and at no
\* other.  The functions it found to bind and the functions it invoked are
\* the first entries of that list, in order, and it raises SignatureMismatch
\* only when an entry of that list cannot bind the arguments, whatever is
\* registered under the other label.
C40_OnlyExactLabel ==
    \A t \in Threads :
        op[t].kind = "run" =>
            /\ IsPrefix(observed[t].bound, Listed(t))
            /\ IsPrefix(InvokedFuncs(t), Listed(t))
            /\ raised[t] = "SignatureMismatch"
                  => \E i \in 1..Len(Listed(t)) : CannotBind(Listed(t)[i], op[t].args)

\* boom is registered under "a" and rec under "ab"; run_side_effects("a")
\* without arguments, which rec cannot bind, has returned without raising
\* after invoking boom alone.
C40_Witness ==
    /\ Consumers(registry, "a") = <<"boom">>
    /\ Consumers(registry, "ab") = <<"rec">>
    /\ op[MainThread].kind = "run" /\ op[MainThread].label = "a"
    /\ op[MainThread].args.n = 0
    /\ pc[MainThread] = "idle" /\ raised[MainThread] = "none"
    /\ InvokedFuncs(MainThread) = <<"boom">>

====
